---- MODULE Spec2Model ----
(***************************************************************************)
(* Model of the orchestration core of the policy-compliance backend:       *)
(* intent classification (orchestrator.py), the two LangGraph pipelines    *)
(* (graph.py, general_graph.py), the event formatter (event_formatter.py)  *)
(* and the thread/queue bridge between the asynchronous producer and the   *)
(* synchronous SSE generator (executor.py).                                *)
(*                                                                         *)
(* Text is modelled as a sequence of one-character strings, so that        *)
(* lower-casing, trimming, substring search and replacement are computed.  *)
(* Python's None is the value None below.                                  *)
(***************************************************************************)
EXTENDS Naturals, Sequences, FiniteSets, TLC

\* ------------------------------------------------------------------ bounds

\* Largest number of token chunks the chat model streams in one generation.
MaxTokens == 1

\* Number of raw events of a run of the producer taken on its own.
MaxEvents == 3
\* The longest text given to _truncate and the largest limit.
MaxTextLen == 4
MaxLimit == 3

\* ------------------------------------------------------------------- text

\* Python's None (not a text: its only element is not a character).
None == <<"<None>">>

\* Python truthiness of an optional text: None and "" are falsy.
Truthy(v) == v # None /\ v # <<>>

\* str.lower() on one character.
LowerChar(c) ==
    CASE c = "A" -> "a" [] c = "B" -> "b" [] c = "C" -> "c" [] c = "D" -> "d"
      [] c = "E" -> "e" [] c = "F" -> "f" [] c = "G" -> "g" [] c = "H" -> "h"
      [] c = "I" -> "i" [] c = "J" -> "j" [] c = "K" -> "k" [] c = "L" -> "l"
      [] c = "M" -> "m" [] c = "N" -> "n" [] c = "O" -> "o" [] c = "P" -> "p"
      [] c = "Q" -> "q" [] c = "R" -> "r" [] c = "S" -> "s" [] c = "T" -> "t"
      [] c = "U" -> "u" [] c = "V" -> "v" [] c = "W" -> "w" [] c = "X" -> "x"
      [] c = "Y" -> "y" [] c = "Z" -> "z" [] OTHER -> c

\* str.lower()
Lower(s) == [i \in 1..Len(s) |-> LowerChar(s[i])]

IsSpace(c) == c \in {" ", "\t", "\n", "\r"}

\* str.rstrip()
RECURSIVE RStrip(_)
RStrip(s) ==
    IF s # <<>> /\ IsSpace(s[Len(s)]) THEN RStrip(SubSeq(s, 1, Len(s) - 1)) ELSE s

\* str.lstrip()
RECURSIVE LStrip(_)
LStrip(s) ==
    IF s # <<>> /\ IsSpace(s[1]) THEN LStrip(Tail(s)) ELSE s

\* str.strip()
Strip(s) == LStrip(RStrip(s))

\* Python's `k in s` for strings: k occurs in s as a contiguous substring.
Contains(s, k) ==
    \E i \in 0..(Len(s) - Len(k)) : SubSeq(s, i + 1, i + Len(k)) = k

\* str.replace(a, b) for single characters a, b.
ReplaceChar(s, a, b) == [i \in 1..Len(s) |-> IF s[i] = a THEN b ELSE s[i]]

\* The single character U+2026 that _truncate appends.
Ellipsis == "U+2026"

\* Variant of _truncate that keeps the first limit characters of a long text.
truncate_keeping_limit_chars(text, limit) ==
    IF text = None THEN <<>>
    ELSE IF Len(text) <= limit THEN text
    ELSE SubSeq(text, 1, limit) \o <<Ellipsis>>

\* _truncate(text, limit): None gives "", a short text is unchanged, a long one
\* is cut to limit-1 characters, right-stripped, and given one ellipsis.
_truncate(text, limit) ==
    IF text = None THEN <<>>
    ELSE IF Len(text) <= limit THEN text
    ELSE RStrip(SubSeq(text, 1, limit - 1)) \o <<Ellipsis>>

\* _safe_session(value): (value or "").replace("-", "_")
_safe_session(value) ==
    ReplaceChar(IF Truthy(value) THEN value ELSE <<>>, "-", "_")

\* --------------------------------------------------------- classification

\* keyword list of _rule_based_classification (orchestrator.py:122-131)
policy_keywords ==
    << <<"p","o","l","i","c","y">>,
       <<"p","o","l","i","c","i","e","s">>,
       <<"h","r">>,
       <<"h","u","m","a","n"," ","r","e","s","o","u","r","c","e","s">>,
       <<"v","a","c","a","t","i","o","n">>,
       <<"l","e","a","v","e">>,
       <<"s","i","c","k">>,
       <<"h","o","l","i","d","a","y">>,
       <<"d","r","e","s","s"," ","c","o","d","e">>,
       <<"a","t","t","e","n","d","a","n","c","e">>,
       <<"r","e","m","o","t","e"," ","w","o","r","k">>,
       <<"w","o","r","k"," ","f","r","o","m"," ","h","o","m","e">>,
       <<"b","e","n","e","f","i","t","s">>,
       <<"i","n","s","u","r","a","n","c","e">>,
       <<"h","a","r","a","s","s","m","e","n","t">>,
       <<"d","i","s","c","r","i","m","i","n","a","t","i","o","n">>,
       <<"c","o","m","p","l","a","i","n","t">>,
       <<"p","r","o","c","e","d","u","r","e">>,
       <<"h","a","n","d","b","o","o","k">>,
       <<"e","m","p","l","o","y","e","e">>,
       <<"e","m","p","l","o","y","m","e","n","t">>,
       <<"c","o","n","t","r","a","c","t">>,
       <<"a","g","r","e","e","m","e","n","t">>,
       <<"d","i","s","c","i","p","l","i","n","a","r","y">>,
       <<"t","e","r","m","i","n","a","t","i","o","n">>,
       <<"s","a","l","a","r","y">>,
       <<"p","a","y">>,
       <<"c","o","m","p","e","n","s","a","t","i","o","n">>,
       <<"b","o","n","u","s">>,
       <<"r","a","i","s","e">>,
       <<"p","r","o","m","o","t","i","o","n">>,
       <<"p","e","r","f","o","r","m","a","n","c","e">>,
       <<"t","r","a","i","n","i","n","g">>,
       <<"d","e","v","e","l","o","p","m","e","n","t">>,
       <<"o","n","b","o","a","r","d","i","n","g">>,
       <<"o","r","i","e","n","t","a","t","i","o","n">>,
       <<"s","a","f","e","t","y">>,
       <<"s","e","c","u","r","i","t","y">>,
       <<"c","o","m","p","l","i","a","n","c","e">>,
       <<"r","e","g","u","l","a","t","i","o","n">>,
       <<"l","e","g","a","l">>,
       <<"l","a","w">>,
       <<"r","i","g","h","t","s">>,
       <<"r","e","s","p","o","n","s","i","b","i","l","i","t","i","e","s">>,
       <<"w","o","r","k","p","l","a","c","e">>,
       <<"o","f","f","i","c","e">>,
       <<"c","o","m","p","a","n","y">>,
       <<"o","r","g","a","n","i","z","a","t","i","o","n">>,
       <<"c","o","r","p","o","r","a","t","e">>,
       <<"b","u","s","i","n","e","s","s">>,
       <<"w","o","r","k">>,
       <<"j","o","b">>,
       <<"c","a","r","e","e","r">> >>

\* keyword list of _rule_based_classification (orchestrator.py:134-138)
casual_keywords ==
    << <<"h","e","l","l","o">>,
       <<"h","i">>,
       <<"h","e","y">>,
       <<"g","o","o","d"," ","m","o","r","n","i","n","g">>,
       <<"g","o","o","d"," ","a","f","t","e","r","n","o","o","n">>,
       <<"g","o","o","d"," ","e","v","e","n","i","n","g">>,
       <<"h","o","w"," ","a","r","e"," ","y","o","u">>,
       <<"w","h","a","t","'","s"," ","u","p">>,
       <<"t","h","a","n","k","s">>,
       <<"t","h","a","n","k"," ","y","o","u">>,
       <<"b","y","e">>,
       <<"g","o","o","d","b","y","e">>,
       <<"s","e","e"," ","y","o","u">>,
       <<"h","a","v","e"," ","a"," ","g","o","o","d">>,
       <<"n","i","c","e"," ","t","o"," ","m","e","e","t">>,
       <<"p","l","e","a","s","u","r","e">>,
       <<"w","e","l","c","o","m","e">> >>

\* keyword list of _rule_based_classification (orchestrator.py:141-144)
capability_keywords ==
    << <<"w","h","a","t"," ","c","a","n"," ","y","o","u">>,
       <<"w","h","a","t"," ","d","o"," ","y","o","u">>,
       <<"h","o","w"," ","c","a","n"," ","y","o","u">>,
       <<"w","h","a","t"," ","a","r","e"," ","y","o","u">>,
       <<"h","e","l","p"," ","m","e">>,
       <<"a","s","s","i","s","t">>,
       <<"s","u","p","p","o","r","t">>,
       <<"c","a","p","a","b","i","l","i","t","i","e","s">>,
       <<"f","e","a","t","u","r","e","s">>,
       <<"f","u","n","c","t","i","o","n","s">>,
       <<"d","o"," ","f","o","r">> >>

\* keyword list of _rule_based_classification (orchestrator.py:147-151)
history_keywords ==
    << <<"p","r","e","v","i","o","u","s">>,
       <<"b","e","f","o","r","e">>,
       <<"e","a","r","l","i","e","r">>,
       <<"l","a","s","t"," ","t","i","m","e">>,
       <<"c","o","n","v","e","r","s","a","t","i","o","n">>,
       <<"c","h","a","t">>,
       <<"h","i","s","t","o","r","y">>,
       <<"a","s","k","e","d">>,
       <<"q","u","e","s","t","i","o","n","s">>,
       <<"m","e","s","s","a","g","e","s">>,
       <<"w","h","a","t"," ","d","i","d"," ","i">>,
       <<"w","h","a","t"," ","w","a","s">>,
       <<"r","e","c","a","l","l">>,
       <<"r","e","m","e","m","b","e","r">>,
       <<"p","a","s","t">>,
       <<"e","a","r","l","i","e","r">>,
       <<"a","g","o">> >>

\* sum(1 for keyword in keywords if keyword in message_lower)
KeywordMatches(keywords, message_lower) ==
    Cardinality({i \in 1..Len(keywords) : Contains(message_lower, keywords[i])})

\* The label "no rule decided" (Python returns None).
NoIntent == "none"

\* Variant of _rule_based_classification without the policy keyword check.
rule_based_without_policy_keywords(message) ==
    LET message_lower == Strip(Lower(message)) IN
    IF KeywordMatches(casual_keywords, message_lower) > 0 THEN "general"
    ELSE IF KeywordMatches(capability_keywords, message_lower) > 0 THEN "general"
    ELSE IF KeywordMatches(history_keywords, message_lower) > 0 THEN "general"
    ELSE NoIntent

\* Variant of _rule_based_classification that tries the casual keywords first.
rule_based_casual_first(message) ==
    LET message_lower == Strip(Lower(message)) IN
    IF KeywordMatches(casual_keywords, message_lower) > 0 THEN "general"
    ELSE IF KeywordMatches(policy_keywords, message_lower) > 0 THEN "company_policy"
    ELSE IF KeywordMatches(capability_keywords, message_lower) > 0 THEN "general"
    ELSE IF KeywordMatches(history_keywords, message_lower) > 0 THEN "general"
    ELSE NoIntent

\* Orchestrator._rule_based_classification: the four keyword lists are tried in
\* the order policy, casual, capability, history; the first with a match decides.
_rule_based_classification(message) ==
    LET message_lower == Strip(Lower(message)) IN
    IF KeywordMatches(policy_keywords, message_lower) > 0 THEN "company_policy"
    ELSE IF KeywordMatches(casual_keywords, message_lower) > 0 THEN "general"
    ELSE IF KeywordMatches(capability_keywords, message_lower) > 0 THEN "general"
    ELSE IF KeywordMatches(history_keywords, message_lower) > 0 THEN "general"
    ELSE NoIntent

\* The texts of the two labels.
TextCompanyPolicy == <<"c","o","m","p","a","n","y","_","p","o","l","i","c","y">>
TextGeneral == <<"g","e","n","e","r","a","l">>

\* The external classifier call raising (not a text: its only element is not
\* a character).
ClassifierRaises == <<"<raises>">>

\* What the external classifier call can do: answer the text of a label, as
\* it is or with other case and surrounding whitespace, answer another text
\* (a label with a space for the underscore, a sentence holding a label, the
\* empty text), or raise.
ClassifierOutcomes ==
    { TextCompanyPolicy,
      TextGeneral,
      <<" ","C","o","m","p","a","n","y","_","P","o","l","i","c","y","\n">>,
      <<"G","E","N","E","R","A","L"," ">>,
      <<"c","o","m","p","a","n","y"," ","p","o","l","i","c","y">>,
      <<"i","t"," ","i","s"," ">> \o TextCompanyPolicy,
      << >>,
      ClassifierRaises }

\* Variant of _llm_classification that accepts an answer holding a label.
llm_classification_by_substring(outcome) ==
    IF outcome = ClassifierRaises THEN "general"
    ELSE IF Contains(Strip(Lower(outcome)), TextCompanyPolicy) THEN "company_policy"
    ELSE "general"

\* Orchestrator._llm_classification: the answer is stripped and lower-cased; an
\* answer that is then not one of the two labels, and an exception, both give
\* "general".
_llm_classification(outcome) ==
    IF outcome = ClassifierRaises THEN "general"
    ELSE LET answered == Strip(Lower(outcome)) IN
         IF answered = TextCompanyPolicy THEN "company_policy"
         ELSE IF answered = TextGeneral THEN "general"
         ELSE "general"

\* ----------------------------------------------------------------- inputs

MsgVacation == <<"W","h","a","t"," ","i","s"," ","o","u","r"," ","v","a","c","a","t","i","o","n"," ","p","o","l","i","c","y","?">>
MsgHello == <<"H","e","l","l","o","!">>
UrlPdf == <<"h","t","t","p","s",":","/","/","e","x","a","m","p","l","e",".","c","o","m","/","a",".","p","d","f">>
MsgEmpty == <<>>
SessionDash == <<"s","-","1">>
UserOne == <<"u","1">>

\* The request values the model draws from.  A session id holds a dash, which
\* input_node replaces; None and "" are the missing and the empty field.
SessionIds == {SessionDash, <<>>, None}
UserIds == {UserOne, None}
Messages == {MsgVacation, MsgHello, MsgEmpty, None}
DocumentUrls == {UrlPdf, None}

\* -------------------------------------------------------------- dictionaries

\* dict.get / `key in dict` on a dictionary modelled as a function on its keys.
Has(d, k) == k \in DOMAIN d

\* The empty dictionary {}.
EmptyDict == <<>>

\* dict.update: keys of u replace or extend d.
Merge(d, u) ==
    [k \in DOMAIN d \cup DOMAIN u |-> IF k \in DOMAIN u THEN u[k] ELSE d[k]]

\* An optional value: <<>> is Python's None, <<v>> is the value v.
Absent == <<>>
Some(v) == <<v>>

\* A value whose Python type matters to the formatter: a dict or a list.
DictValue(r) == [kind |-> "dict", v |-> r]
ListValue(l) == [kind |-> "list", v |-> l]

\* ------------------------------------------------------------ event formatter

\* (event.get("name") or "").lower() on the names the runtime uses.
LowerName(name) ==
    CASE name = "LangGraph" -> "langgraph"
      [] name = "ChatGoogleGenerativeAI" -> "chatgooglegenerativeai"
      [] OTHER -> name

\* _extract_count(value): len() of a list or dict, None otherwise.
_extract_count(value) ==
    IF value = Absent THEN Absent
    ELSE IF value[1].kind = "dict" THEN Some(Cardinality(DOMAIN value[1].v))
    ELSE Some(Len(value[1].v))

\* `_extract_count(x) or 0`
CountOrZero(value) ==
    IF _extract_count(value) = Absent THEN 0 ELSE _extract_count(value)[1]

\* Variant of _build_stage_payload that gives a payload with a count of two or
\* more the type progress.
build_stage_payload_by_count(node, message, extra) ==
    LET large == Has(extra, "count") /\ extra.count # Absent /\ extra.count[1] >= 2
        base == [type |-> IF large THEN "progress" ELSE "stage",
                 node |-> node, message |-> message]
        keep == {k \in DOMAIN extra : extra[k] # Absent}
    IN  [k \in DOMAIN base \cup keep |-> IF k \in keep THEN extra[k][1] ELSE base[k]]

\* _build_stage_payload(node, message, **extra): extras that are None are left out.
_build_stage_payload(node, message, extra) ==
    LET base == [type |-> "stage", node |-> node, message |-> message]
        keep == {k \in DOMAIN extra : extra[k] # Absent}
    IN  [k \in DOMAIN base \cup keep |-> IF k \in keep THEN extra[k][1] ELSE base[k]]

\* str() of a retrieved chunk dictionary, rendered by its content.
StrOfChunk(chunk) == <<"{">> \o chunk.content \o <<"}">>

\* The sample of a retrieval payload: None unless the value is a list; then the
\* first item (or "") truncated to 160.
RetrievalSample(value, count) ==
    IF value = Absent \/ value[1].kind # "list" THEN Absent
    ELSE Some(_truncate(IF count > 0 THEN StrOfChunk(value[1].v[1]) ELSE <<>>, 160))

\* output_section.get(key) of the event's data, None when there is no output or key.
OutputGet(data_section, key) ==
    IF Has(data_section, "output") /\ Has(data_section.output, key)
    THEN Some(data_section.output[key]) ELSE Absent

\* Variant of _extract_token that finds no text in any chunk.
extract_token_dropping_text(data_section) == << >>

\* _extract_token(data_section): the content of the streamed chunk, "" without one.
_extract_token(data_section) ==
    IF ~Has(data_section, "chunk") THEN <<>> ELSE data_section.chunk.content

\* A data section that is not a dictionary but a text: the dictionary-like
\* value whose only key is "nondict".
NonDictData(text) == [nondict |-> text]

\* state_snapshot.get(key): the value under the data section's "state".
SnapshotGet(data_section, key) ==
    IF Has(data_section, "state") /\ Has(data_section.state, key)
    THEN Some(data_section.state[key]) ELSE Absent

\* _extract_text(output_section or data_section) on a chat-model end event: the
\* content of the output message; a data section that is a text is that text.
ExtractModelText(data_section) ==
    IF Has(data_section, "output") THEN data_section.output.content
    ELSE IF Has(data_section, "nondict") THEN data_section.nondict
    ELSE <<>>

\* The text of the whole-run final payload (output node's end event): the
\* "content" of the node's output, then its "response", then _extract_text of
\* the data section, which finds the "response" of the node's input state.
ExtractFinalText(data_section) ==
    LET content == OutputGet(data_section, "content")
        fromOutput == IF content # Absent /\ content[1] # <<>> THEN content[1] ELSE <<>>
        response == OutputGet(data_section, "response")
        fromResponse == IF fromOutput # <<>> THEN fromOutput
                        ELSE IF response # Absent THEN response[1] ELSE <<>>
    IN  IF fromResponse # <<>> THEN fromResponse
        ELSE IF Has(data_section, "input") /\ Has(data_section.input, "response")
             THEN data_section.input.response
        ELSE IF Has(data_section, "nondict") THEN data_section.nondict
        ELSE <<>>

\* format_event_for_ui(event, initial_state): the list of UI payloads of one raw
\* event.  statSize is what os.path.exists/getsize report for the downloaded
\* temporary file (Absent when the file is not there).
format_event_for_ui(event, initial_state, statSize) ==
    LET node_name == LowerName(event.name)
        ev_type == event.event
        data_section == event.data
    IN
    IF ev_type = "on_chat_model_stream" THEN
        LET token == _extract_token(data_section) IN
        IF token # <<>>
        THEN << [type |-> "llm_stream", node |-> node_name, content |-> token] >>
        ELSE << >>
    ELSE IF ev_type = "on_chat_model_end" THEN
        LET final_text == ExtractModelText(data_section) IN
        IF final_text # <<>>
        THEN << [type |-> "llm_final", node |-> node_name, content |-> final_text] >>
        ELSE << >>
    ELSE IF node_name \in {"input", "input_node"} THEN
        IF ev_type = "on_chain_start" THEN
            << _build_stage_payload("input", <<"Validating session & user input...">>,
                 [session |-> Some(_safe_session(initial_state.session_id)),
                  user_message |-> Some(_truncate(initial_state.message, 120))]) >>
        ELSE IF ev_type = "on_chain_end" THEN
            LET got == OutputGet(data_section, "safe_session_id")
                safe_id == IF got # Absent /\ Truthy(got[1]) THEN got[1]
                           ELSE _safe_session(initial_state.session_id)
            IN << _build_stage_payload("input", <<"Session validated">>,
                    [session |-> Some(safe_id)]) >>
        ELSE << >>
    ELSE IF node_name \in {"history", "session_history_node"} /\ ev_type = "on_chain_end" THEN
        LET count == CountOrZero(OutputGet(data_section, "history")) IN
        << _build_stage_payload("history",
              <<"Fetched ", ToString(count), " messages from history">>,
              [count |-> Some(count)]) >>
    ELSE IF node_name \in {"doc_download", "document_download_node"} THEN
        IF ev_type = "on_chain_start" THEN
            LET snapshot == SnapshotGet(data_section, "document_url")
                url == IF Truthy(initial_state.document_url)
                       THEN initial_state.document_url
                       ELSE IF snapshot # Absent THEN snapshot[1] ELSE None
            IN  IF Truthy(url)
                THEN << _build_stage_payload("doc_download",
                          <<"Downloading document from URL ">> \o _truncate(url, 100),
                          EmptyDict) >>
                ELSE << >>
        ELSE IF ev_type = "on_chain_end" THEN
            LET tmp_path == OutputGet(data_section, "tmp_file_path")
                size_bytes == IF tmp_path # Absent THEN statSize ELSE Absent
            IN << _build_stage_payload("doc_download", <<"Document downloaded">>,
                    [bytes |-> size_bytes,
                     temp_path |-> IF tmp_path # Absent
                                   THEN Some(_truncate(tmp_path[1], 80)) ELSE Absent]) >>
        ELSE << >>
    ELSE IF node_name \in {"doc_process", "document_processing_node"} THEN
        IF ev_type = "on_chain_start" THEN
            << _build_stage_payload("doc_process",
                  <<"Processing downloaded document...">>, EmptyDict) >>
        ELSE IF ev_type = "on_chain_end" THEN
            << _build_stage_payload("doc_process",
                  <<"Document chunks prepared for retrieval">>, EmptyDict) >>
        ELSE << >>
    ELSE IF node_name \in {"policy_retriever", "policy_retriever_node"}
            /\ ev_type = "on_chain_end" THEN
        LET policy_chunks == OutputGet(data_section, "policy_context")
            count == CountOrZero(policy_chunks)
        IN << _build_stage_payload("policy_retriever",
                <<"Retrieved ", ToString(count), " policy chunks">>,
                [count |-> Some(count), sample |-> RetrievalSample(policy_chunks, count)]) >>
    ELSE IF node_name \in {"doc_retriever", "document_retriever_node"}
            /\ ev_type = "on_chain_end" THEN
        LET doc_chunks == OutputGet(data_section, "doc_context")
            count == CountOrZero(doc_chunks)
        IN << _build_stage_payload("doc_retriever",
                <<"Retrieved ", ToString(count), " document chunks">>,
                [count |-> Some(count), sample |-> RetrievalSample(doc_chunks, count)]) >>
    ELSE IF node_name \in {"context_combine", "context_combination_node"}
            /\ ev_type = "on_chain_end" THEN
        LET full_message == OutputGet(data_section, "full_user_message") IN
        << _build_stage_payload("context_combine",
              <<"Combining policy and document context">>,
              [preview |-> IF full_message # Absent /\ full_message[1] # <<>>
                           THEN Some(_truncate(full_message[1], 200)) ELSE Absent]) >>
    ELSE IF node_name \in {"llm", "llm_node"} /\ ev_type = "on_chain_start" THEN
        << _build_stage_payload("llm", <<"Generating response with LLM...">>, EmptyDict) >>
    ELSE IF node_name \in {"session_update", "session_update_node"}
            /\ ev_type = "on_chain_end" THEN
        << _build_stage_payload("session_update",
              <<"Appending messages to session history">>, EmptyDict) >>
    ELSE IF node_name \in {"output", "output_node"} /\ ev_type = "on_chain_end" THEN
        << [type |-> "final", node |-> node_name,
            content |-> ExtractFinalText(data_section)] >>
    ELSE IF ev_type \in {"on_chain_start", "on_chain_end"} /\ node_name # "" THEN
        LET verb == IF ev_type = "on_chain_start" THEN "Starting" ELSE "Finished" IN
        << _build_stage_payload(node_name, <<verb, " node '", node_name, "'">>, EmptyDict) >>
    ELSE << >>

\* A value json.dumps cannot encode (an object that is neither text, number,
\* list nor dict); not a text: its only element is not a character.
Opaque == <<"<object>">>

\* json.dumps(payload) raises.  The payloads the formatter builds hold texts and
\* integers it made itself, except `session` of the input end payload, which
\* is the node's safe_session_id as it came.
SerializationFails(payload) == Has(payload, "session") /\ payload.session = Opaque

\* str(payload) of a stage payload with a session.
StrOfPayload(payload) ==
    <<"{'type': '", payload.type, "', 'node': '", payload.node, "', 'message': '">>
       \o payload.message \o <<"', 'session': ">> \o payload.session \o <<"}">>

\* str(payload)[:200].replace("\n", "\\n")
RawOf(payload) ==
    LET text == StrOfPayload(payload)
        cut == IF Len(text) <= 200 THEN text ELSE SubSeq(text, 1, 200)
    IN  ReplaceChar(cut, "\n", "\\n")

\* Variant of serialize_payload_for_sse whose except branch reports an error.
serialize_reporting_error(payload) ==
    IF SerializationFails(payload)
    THEN <<"data: ", [type |-> "error", error |-> RawOf(payload)], "\n\n">>
    ELSE <<"data: ", payload, "\n\n">>

\* serialize_payload_for_sse(payload): the SSE line "data: <json>\n\n"; when
\* json.dumps raises, the line of the fallback payload of type event.
serialize_payload_for_sse(payload) ==
    IF SerializationFails(payload)
    THEN <<"data: ", [type |-> "event", raw |-> RawOf(payload)], "\n\n">>
    ELSE <<"data: ", payload, "\n\n">>

\* The payload inside an SSE line.
PayloadOf(line) == line[2]

\* Variant of the error frame that drops the exception's message.
ErrorFrameWithoutMessage(msg) ==
    serialize_payload_for_sse([type |-> "error", error |-> <<"error">>])

\* The frames the producer itself builds (executor.py:82, 86).
ErrorFrame(msg) == serialize_payload_for_sse([type |-> "error", error |-> msg])
EndFrame == serialize_payload_for_sse([type |-> "end"])

\* The SSE lines of a list of payloads, in order.
SerializeAll(payloads) == [i \in 1..Len(payloads) |-> serialize_payload_for_sse(payloads[i])]

\* ------------------------------------------------------------------ state

\* Before the runtime produced its first event.
NoEvent == [ev |-> [event |-> "", name |-> "", data |-> EmptyDict], stat |-> Absent]

VARIABLES
    request,          \* session_id, user_id, message, document_url of the request
    tempStore,        \* the table temp_documents_<safe_session_id> exists
    stored,           \* rows of chat_history_messages of the session, oldest first
    graphs,           \* the graphs the orchestrator has built and cached
    intent,           \* result of classify_intent (NoIntent before it ran)
    classifierCalled, \* the external classifier was invoked for this request
    genPc,            \* the SSE generator: request, raised, created, pulling, done
    workerPc,         \* the background thread
    q,                \* the queue.Queue between producer and generator
    pushed,           \* every item put on the queue so far, in put order
    yielded,          \* every item the generator has yielded so far
    rt,               \* position of the graph runtime (astream_events)
    bag,              \* state updates merged so far by the runtime
    executed,         \* names of the nodes whose function was invoked, in order
    rawEvents,        \* kind and name of every raw event produced, in order
    lastEvent,        \* the raw event of the producer's latest loop turn
    routes,           \* labels returned by the two routing functions
    storeAtStart,     \* tempStore when the request arrived
    raised,           \* the exception astream_events raised into async_producer
    llmFailed,        \* _LLM.invoke raised inside the llm node
    streamed,         \* the chunks the chat model has streamed, in emission order
    answer,           \* what the external classifier call did, when it was made
    run,              \* 1 during the first run of a request, 2 during its repetition
    firstStages,      \* the stage node names of the finished first run
    graphCache,       \* the orchestrator's cached graph of each intent (0 is None)
    built,            \* how many graphs of each intent have been constructed
    callers,          \* the threads inside get_graph
    pending,          \* raw events an event stream has still to produce
    fmtIn,            \* arguments of a call of format_event_for_ui
    fmtOut            \* what that call returned or raised

vars == << request, tempStore, stored, graphs, intent, classifierCalled, genPc,
           workerPc, q, pushed, yielded, rt, bag, executed, rawEvents, lastEvent, routes,
           storeAtStart, raised, llmFailed, streamed, answer,
           run, firstStages, graphCache, built, callers, pending, fmtIn, fmtOut >>

\* The variables of the repeated run, of get_graph's callers, of a stand-alone
\* event stream and of a stand-alone formatter call.
sideVars == << run, firstStages, graphCache, built, callers, pending, fmtIn, fmtOut >>

\* initial_state as Orchestrator.create_stream_generator builds it.
InitialState ==
    [session_id |-> request.session_id, message |-> request.message,
     document_url |-> request.document_url, intent |-> intent,
     user_id |-> request.user_id]

\* ------------------------------------------------------------------ graphs

\* Nodes and edges of build_general_purpose_graph and build_company_policy_graph.
GeneralNodes == {"input", "history", "llm", "session_update", "output"}
PolicyNodes == GeneralNodes \cup
    {"doc_download", "doc_process", "policy_retriever", "doc_retriever", "context_combine"}

\* Variant of the general graph with the edge llm -> output.
GeneralSuccessorSkippingUpdate(n) ==
    CASE n = "input" -> "history"
      [] n = "history" -> "llm"
      [] n = "llm" -> "output"
      [] n = "session_update" -> "output"
      [] n = "output" -> "END"

\* The node after n; label is the routing label when n has conditional edges.
GeneralSuccessor(n) ==
    CASE n = "input" -> "history"
      [] n = "history" -> "llm"
      [] n = "llm" -> "session_update"
      [] n = "session_update" -> "output"
      [] n = "output" -> "END"

\* Variant of the policy graph whose edge for has_doc leads to doc_download.
PolicySuccessorDownloadingAgain(n, label) ==
    CASE n = "input" -> "history"
      [] n = "history" -> (IF label = "no_doc" THEN "policy_retriever" ELSE "doc_download")
      [] n = "doc_download" -> "doc_process"
      [] n = "doc_process" -> "policy_retriever"
      [] n = "policy_retriever" ->
             (IF label = "need_doc" THEN "doc_retriever" ELSE "context_combine")
      [] n = "doc_retriever" -> "context_combine"
      [] n = "context_combine" -> "llm"
      [] n = "llm" -> "session_update"
      [] n = "session_update" -> "output"
      [] n = "output" -> "END"

\* Variant of the policy graph whose edge for need_doc leads to context_combine.
PolicySuccessorSkippingDocRetriever(n, label) ==
    CASE n = "input" -> "history"
      [] n = "history" -> (IF label = "with_doc" THEN "doc_download" ELSE "policy_retriever")
      [] n = "doc_download" -> "doc_process"
      [] n = "doc_process" -> "policy_retriever"
      [] n = "policy_retriever" -> "context_combine"
      [] n = "doc_retriever" -> "context_combine"
      [] n = "context_combine" -> "llm"
      [] n = "llm" -> "session_update"
      [] n = "session_update" -> "output"
      [] n = "output" -> "END"

\* Variant of the policy graph whose edge for no_doc leads to doc_download.
PolicySuccessorDownloadingWithoutUrl(n, label) ==
    CASE n = "input" -> "history"
      [] n = "history" -> (IF label = "has_doc" THEN "policy_retriever" ELSE "doc_download")
      [] n = "doc_download" -> "doc_process"
      [] n = "doc_process" -> "policy_retriever"
      [] n = "policy_retriever" ->
             (IF label = "need_doc" THEN "doc_retriever" ELSE "context_combine")
      [] n = "doc_retriever" -> "context_combine"
      [] n = "context_combine" -> "llm"
      [] n = "llm" -> "session_update"
      [] n = "session_update" -> "output"
      [] n = "output" -> "END"

PolicySuccessor(n, label) ==
    CASE n = "input" -> "history"
      [] n = "history" -> (IF label = "with_doc" THEN "doc_download" ELSE "policy_retriever")
      [] n = "doc_download" -> "doc_process"
      [] n = "doc_process" -> "policy_retriever"
      [] n = "policy_retriever" ->
             (IF label = "need_doc" THEN "doc_retriever" ELSE "context_combine")
      [] n = "doc_retriever" -> "context_combine"
      [] n = "context_combine" -> "llm"
      [] n = "llm" -> "session_update"
      [] n = "session_update" -> "output"
      [] n = "output" -> "END"

Successor(n, label) ==
    IF intent = "general" THEN GeneralSuccessor(n) ELSE PolicySuccessor(n, label)

\* Variant of route_after_history that never looks at document_url.
route_after_history_ignoring_url(has_temp, document_url) ==
    IF has_temp THEN "has_doc" ELSE "with_doc"

\* Variant of route_after_history that looks at the document URL first.
route_after_history_url_first(has_temp, document_url) ==
    IF Truthy(document_url) THEN "with_doc"
    ELSE IF has_temp THEN "has_doc"
    ELSE "no_doc"

\* route_after_history: has_temp is the outcome of the to_regclass lookup
\* (False when the lookup raises or safe_session_id is empty).
route_after_history(has_temp, document_url) ==
    IF has_temp THEN "has_doc"
    ELSE IF Truthy(document_url) THEN "with_doc"
    ELSE "no_doc"

\* Variant of route_after_policy that never looks for the temporary store.
route_after_policy_always_need_doc(has_temp) == "need_doc"

\* route_after_policy
route_after_policy(has_temp) ==
    IF has_temp THEN "need_doc" ELSE "no_doc_needed"

\* The routing function attached to a node (conditional edges), "" without one.
RouterOf(n) ==
    IF intent = "company_policy" /\ n = "history" THEN "route_after_history"
    ELSE IF intent = "company_policy" /\ n = "policy_retriever" THEN "route_after_policy"
    ELSE ""

\* --------------------------------------------------------- session history

Placeholder == [type |-> "SystemMessage", content |-> <<"You are a helpful assistant.">>]

\* Variant of get_session_history without the placeholder message.
get_session_history_without_placeholder(db_messages, readOk) ==
    LET rows == SelectSeq(db_messages, LAMBDA m : m.role \in {"user", "assistant"})
    IN  IF ~readOk THEN << >>
        ELSE [i \in 1..Len(rows) |->
                [type |-> IF rows[i].role = "user" THEN "HumanMessage" ELSE "AIMessage",
                 content |-> rows[i].content]]

\* Orchestrator.get_session_history: user and assistant rows become messages;
\* an empty result and a failed read give the one placeholder message.
get_session_history(db_messages, readOk) ==
    LET rows == SelectSeq(db_messages, LAMBDA m : m.role \in {"user", "assistant"})
        history == [i \in 1..Len(rows) |->
                      [type |-> IF rows[i].role = "user" THEN "HumanMessage" ELSE "AIMessage",
                       content |-> rows[i].content]]
    IN  IF ~readOk THEN << Placeholder >>
        ELSE IF history = << >> THEN << Placeholder >>
        ELSE history

\* How far update_session_history gets before a repository call raises.
SaveOutcomes == {"saved", "fail_session", "fail_user", "fail_assistant"}

\* Orchestrator.update_session_history: get_or_create_session, save the user
\* message, save the assistant response; the first failure ends it silently.
update_session_history(db_messages, human_message, ai_response, outcome) ==
    LET user == [role |-> "user", content |-> human_message]
        assistant == [role |-> "assistant", content |-> ai_response]
    IN  CASE outcome = "fail_session" -> db_messages
          [] outcome = "fail_user" -> db_messages
          [] outcome = "fail_assistant" -> Append(db_messages, user)
          [] outcome = "saved" -> Append(Append(db_messages, user), assistant)

\* ------------------------------------------------------------ node functions

\* input_node / general_input_node: the message of the first failing assert,
\* Absent when all three hold.
\* Variant of input_node's asserts without the one on user_id.
InputAssertionWithoutUser(state) ==
    IF ~Truthy(state.session_id) THEN Some(<<"session_id required">>)
    ELSE IF ~Truthy(state.message) THEN Some(<<"message required">>)
    ELSE Absent

InputAssertion(state) ==
    IF ~Truthy(state.session_id) THEN Some(<<"session_id required">>)
    ELSE IF ~Truthy(state.message) THEN Some(<<"message required">>)
    ELSE IF ~Truthy(state.user_id) THEN Some(<<"user_id required">>)
    ELSE Absent

\* input_node's update when the asserts hold.
input_node(state) == [safe_session_id |-> ReplaceChar(state.session_id, "-", "_")]

\* The fallback texts of llm_node and general_llm_node.
PolicyFallback ==
    <<"I'm temporarily unavailable to generate a detailed answer, but I've recorded your question.">>
GeneralFallback ==
    <<"I'm here to help with policy questions, but I can't generate a response right now.">>
FallbackText == IF intent = "general" THEN GeneralFallback ELSE PolicyFallback

\* The i-th chunk the chat model streams: an empty chunk or a piece of text.
TokenChoices(i) == { <<>>, << "t" \o ToString(i) >> }

\* Concatenation of the streamed chunks: the content of the model's response.
RECURSIVE Concat(_)
Concat(tokens) == IF tokens = << >> THEN << >> ELSE Head(tokens) \o Concat(Tail(tokens))

\* What Retriever.retrieve_chunks / TempRetriever.retrieve_chunks return.
ChunkA == [id |-> "c1", content |-> <<"c","h","u","n","k">>, distance |-> "d1"]
RetrieverResults ==
    { [status |-> "error", message |-> <<"db">>],
      [status |-> "success", chunks |-> << ChunkA >>] }

\* document_retriever_node: the chunks of a successful retrieval, [] otherwise.
DocContextOf(doc_results) ==
    IF doc_results.status = "success" THEN doc_results.chunks ELSE << >>

\* The outcome of DocumentProcessorTemp.process: an error before the table is
\* created (unreadable or empty PDF, no connection), an embedding error after
\* CREATE TABLE was committed, or success.
ProcessOutcomes == {"error_before_create", "error_after_create", "success"}
ProcessCreatesTable(outcome) == outcome \in {"error_after_create", "success"}

\* The path and the sizes os.path.getsize may report for the downloaded file.
TmpPath == <<"/","t","m","p","/","t","m","p","a">>
DownloadSizes == {1024}

\* context_combination_node: the combined prompt; str() of each context is
\* rendered as one element.
FullUserMessage(message, hasPolicy, hasDoc) ==
    <<"User Message: ">> \o message \o <<"\nContext: ">>
      \o << IF hasPolicy THEN "policy_context" ELSE "[]" >>
      \o << IF hasDoc THEN "doc_context" ELSE "[]" >>

\* ------------------------------------------------------------------ events

ChainStart(name) == [event |-> "on_chain_start", name |-> name, data |-> EmptyDict]
ChainEnd(name, output) ==
    [event |-> "on_chain_end", name |-> name, data |-> [output |-> output]]
ChainEndWithInput(name, output, input) ==
    [event |-> "on_chain_end", name |-> name, data |-> [output |-> output, input |-> input]]
ChatModelStart == [event |-> "on_chat_model_start", name |-> "ChatGoogleGenerativeAI",
                   data |-> EmptyDict]
ChatModelStream(token) ==
    [event |-> "on_chat_model_stream", name |-> "ChatGoogleGenerativeAI",
     data |-> [chunk |-> [content |-> token]]]
ChatModelEnd(content) ==
    [event |-> "on_chat_model_end", name |-> "ChatGoogleGenerativeAI",
     data |-> [output |-> [content |-> content]]]

\* ------------------------------------------------------------ orchestrator

\* Orchestrator.classify_intent: the rules first, the external classifier only
\* when no rule decided.
classify_intent(message, outcome) ==
    IF _rule_based_classification(message) # NoIntent
    THEN _rule_based_classification(message)
    ELSE _llm_classification(outcome)

\* Orchestrator.get_graph: the graph of the intent is built when not cached.
get_graph(cache, label) == cache \cup {label}

\* Nothing but one run of one request is going on.
SideIdle ==
    /\ run = 1
    /\ firstStages = << >>
    /\ graphCache = [i \in {"company_policy", "general"} |-> 0]
    /\ built = [i \in {"company_policy", "general"} |-> 0]
    /\ callers = << >>
    /\ pending = << >>
    /\ fmtIn = << >>
    /\ fmtOut = << >>

Init ==
    /\ request \in [session_id : SessionIds, user_id : UserIds,
                    message : Messages, document_url : DocumentUrls]
    /\ tempStore \in BOOLEAN
    /\ stored = << >>
    /\ graphs = {}
    /\ intent = NoIntent
    /\ classifierCalled = FALSE
    /\ genPc = "request"
    /\ workerPc = "notstarted"
    /\ q = << >>
    /\ pushed = << >>
    /\ yielded = << >>
    /\ rt = [node |-> "LangGraph", phase |-> "start", out |-> EmptyDict, label |-> ""]
    /\ bag = EmptyDict
    /\ executed = << >>
    /\ rawEvents = << >>
    /\ lastEvent = NoEvent
    /\ routes = << >>
    /\ storeAtStart = tempStore
    /\ raised = Absent
    /\ llmFailed = FALSE
    /\ streamed = << >>
    /\ answer = Absent
    /\ SideIdle

\* Orchestrator.create_stream_generator with message None: message[:100] raises
\* TypeError before anything is classified or started.
CreateStreamRaises ==
    /\ genPc = "request"
    /\ request.message = None
    /\ genPc' = "raised"
    /\ UNCHANGED << sideVars, answer, streamed, storeAtStart, raised, llmFailed,
                    request, tempStore, stored, graphs, intent, classifierCalled,
                    workerPc, q, pushed, yielded, rt, bag, executed, rawEvents, lastEvent, routes >>

\* Orchestrator.create_stream_generator: classify, get the graph, build the
\* initial state and create the executor's generator (not yet started).
CreateStream ==
    /\ genPc = "request"
    /\ request.message # None
    /\ \E outcome \in ClassifierOutcomes :
          /\ intent' = classify_intent(request.message, outcome)
          /\ graphs' = get_graph(graphs, classify_intent(request.message, outcome))
          /\ answer' = IF _rule_based_classification(request.message) = NoIntent
                       THEN Some(outcome) ELSE Absent
    /\ classifierCalled' = (_rule_based_classification(request.message) = NoIntent)
    /\ genPc' = "created"
    /\ UNCHANGED << sideVars, streamed, storeAtStart, raised, llmFailed,
                    request, tempStore, stored, workerPc, q, pushed, yielded, rt, bag,
                    executed, rawEvents, lastEvent, routes >>

\* ------------------------------------------------------------------ bridge

\* create_stream_generator, first next(): the queue is created and the
\* background thread started.
GeneratorStart ==
    /\ genPc = "created"
    /\ genPc' = "pulling"
    /\ workerPc' = "started"
    /\ UNCHANGED << sideVars, answer, streamed, storeAtStart, raised, llmFailed,
                    request, tempStore, stored, graphs, intent, classifierCalled,
                    q, pushed, yielded, rt, bag, executed, rawEvents, lastEvent, routes >>

\* Variant of the generator's loop that takes the newest item of the queue.
GeneratorGetNewest ==
    /\ genPc = "pulling"
    /\ q # << >>
    /\ q' = SubSeq(q, 1, Len(q) - 1)
    /\ IF q[Len(q)] = None
       THEN genPc' = "done" /\ yielded' = yielded
       ELSE genPc' = genPc /\ yielded' = Append(yielded, q[Len(q)])
    /\ UNCHANGED << sideVars, answer, streamed, storeAtStart, raised, llmFailed,
                    request, tempStore, stored, graphs, intent, classifierCalled,
                    workerPc, pushed, rt, bag, executed, rawEvents, lastEvent, routes >>

\* create_stream_generator, one turn of `while True`: q.get() blocks on an
\* empty queue; None ends the generator, any other item is yielded.
GeneratorGet ==
    /\ genPc = "pulling"
    /\ q # << >>
    /\ q' = Tail(q)
    /\ IF Head(q) = None
       THEN genPc' = "done" /\ yielded' = yielded
       ELSE genPc' = genPc /\ yielded' = Append(yielded, Head(q))
    /\ UNCHANGED << sideVars, answer, streamed, storeAtStart, raised, llmFailed,
                    request, tempStore, stored, graphs, intent, classifierCalled,
                    workerPc, pushed, rt, bag, executed, rawEvents, lastEvent, routes >>

\* start_background_loop when asyncio.new_event_loop() succeeds: the producer
\* coroutine starts running.
BackgroundLoopStarts ==
    /\ workerPc = "started"
    /\ workerPc' = "producing"
    /\ UNCHANGED << sideVars, answer, streamed, storeAtStart, raised, llmFailed,
                    request, tempStore, stored, graphs, intent, classifierCalled,
                    genPc, q, pushed, yielded, rt, bag, executed, rawEvents, lastEvent, routes >>

\* start_background_loop when asyncio.new_event_loop() raises: the except
\* branch prints, `finally: loop.close()` raises on the unbound name, and the
\* thread ends without a single put.
BackgroundLoopFails ==
    /\ workerPc = "started"
    /\ workerPc' = "dead"
    /\ UNCHANGED << sideVars, answer, streamed, storeAtStart, raised, llmFailed,
                    request, tempStore, stored, graphs, intent, classifierCalled,
                    genPc, q, pushed, yielded, rt, bag, executed, rawEvents, lastEvent, routes >>

\* queue.put of a list of SSE lines, one after the other.
\* Variant of q.put on a queue.Queue(maxsize=1): the put waits while the queue
\* is full.
PutWhenNotFull(lines) ==
    /\ Len(q) + Len(lines) <= 1
    /\ q' = q \o lines
    /\ pushed' = pushed \o lines

Put(lines) ==
    /\ q' = q \o lines
    /\ pushed' = pushed \o lines

\* One turn of async_producer's `async for`: the runtime produced ev; it is
\* formatted, and every payload serialized and put in order.
Emit(ev, statSize) ==
    /\ rawEvents' = Append(rawEvents, << ev.event, ev.name >>)
    /\ lastEvent' = [ev |-> ev, stat |-> statSize]
    /\ Put(SerializeAll(format_event_for_ui(ev, InitialState, statSize)))

\* Variant of the runtime that enters a node's function without a start event.
GotoSkippingStart(n) ==
    IF n = "END"
    THEN [node |-> "LangGraph", phase |-> "end", out |-> EmptyDict, label |-> ""]
    ELSE [node |-> n, phase |-> "body", out |-> EmptyDict, label |-> ""]

\* The runtime position at the start of node n, or at the graph's end event.
Goto(n) ==
    IF n = "END"
    THEN [node |-> "LangGraph", phase |-> "end", out |-> EmptyDict, label |-> ""]
    ELSE [node |-> n, phase |-> "start", out |-> EmptyDict, label |-> ""]

\* After the function of node n returned update: the runtime runs the node's
\* routing function next (its start event), or emits the node's end event.
AfterBody(n, update) ==
    IF RouterOf(n) # ""
    THEN /\ Emit(ChainStart(RouterOf(n)), Absent)
         /\ rt' = [node |-> n, phase |-> "route", out |-> update, label |-> ""]
    ELSE /\ Emit(ChainEnd(n, update), Absent)
         /\ rt' = Goto(Successor(n, ""))

Running(n, phase) == workerPc = "producing" /\ rt.node = n /\ rt.phase = phase

\* The graph's own start event (name "LangGraph").
RootStart ==
    /\ Running("LangGraph", "start")
    /\ Emit(ChainStart("LangGraph"), Absent)
    /\ rt' = Goto("input")
    /\ UNCHANGED << sideVars, answer, streamed, storeAtStart, raised, llmFailed,
                    request, tempStore, stored, graphs, intent, classifierCalled,
                    genPc, workerPc, yielded, bag, executed, routes >>

\* The start event of a node.
NodeStart ==
    /\ workerPc = "producing"
    /\ rt.node # "LangGraph"
    /\ rt.phase = "start"
    /\ Emit(ChainStart(rt.node), Absent)
    /\ rt' = [rt EXCEPT !.phase = "body"]
    /\ UNCHANGED << sideVars, answer, streamed, storeAtStart, raised, llmFailed,
                    request, tempStore, stored, graphs, intent, classifierCalled,
                    genPc, workerPc, yielded, bag, executed, routes >>

\* input_node / general_input_node, asserts hold.
InputNode ==
    /\ Running("input", "body")
    /\ InputAssertion(InitialState) = Absent
    /\ executed' = Append(executed, "input")
    /\ bag' = Merge(bag, input_node(InitialState))
    /\ AfterBody("input", input_node(InitialState))
    /\ UNCHANGED << sideVars, answer, streamed, storeAtStart, raised, llmFailed,
                    request, tempStore, stored, graphs, intent, classifierCalled,
                    genPc, workerPc, yielded, routes >>

\* Variant of the producer whose except branch puts no error frame.
InputNodeRaisesSilently ==
    /\ Running("input", "body")
    /\ InputAssertion(InitialState) # Absent
    /\ executed' = Append(executed, "input")
    /\ raised' = Some([node |-> "input", error |-> InputAssertion(InitialState)[1]])
    /\ workerPc' = "finally_end"
    /\ UNCHANGED << sideVars, answer, streamed, storeAtStart, llmFailed,
                    request, tempStore, stored, graphs, intent,
                    classifierCalled, genPc, q, pushed, yielded, rt, bag, rawEvents,
                    lastEvent, routes >>

\* input_node / general_input_node, an assert fails: astream_events raises in
\* async_producer, whose except branch puts the error frame.
InputNodeRaises ==
    /\ Running("input", "body")
    /\ InputAssertion(InitialState) # Absent
    /\ executed' = Append(executed, "input")
    /\ raised' = Some([node |-> "input", error |-> InputAssertion(InitialState)[1]])
    /\ Put(<< ErrorFrame(InputAssertion(InitialState)[1]) >>)
    /\ workerPc' = "finally_end"
    /\ UNCHANGED << sideVars, answer, streamed, storeAtStart, llmFailed,
                    request, tempStore, stored, graphs, intent, classifierCalled,
                    genPc, yielded, rt, bag, rawEvents, lastEvent, routes >>

\* session_history_node / general_history_node.
HistoryNode ==
    /\ Running("history", "body")
    /\ executed' = Append(executed, "history")
    /\ \E readOk \in BOOLEAN :
          LET update == [history |-> ListValue(get_session_history(stored, readOk))] IN
          /\ bag' = Merge(bag, update)
          /\ AfterBody("history", update)
    /\ UNCHANGED << sideVars, answer, streamed, storeAtStart, raised, llmFailed,
                    request, tempStore, stored, graphs, intent, classifierCalled,
                    genPc, workerPc, yielded, routes >>

\* route_after_history runs; its end event follows.
RouteAfterHistory ==
    /\ Running("history", "route")
    /\ \E lookupOk \in BOOLEAN :
          LET has_temp == Truthy(bag.safe_session_id) /\ lookupOk /\ tempStore
              label == route_after_history(has_temp, InitialState.document_url)
          IN  /\ rt' = [rt EXCEPT !.phase = "end", !.label = label]
              /\ routes' = Append(routes, label)
              /\ Emit(ChainEnd("route_after_history", [label |-> label]), Absent)
    /\ UNCHANGED << sideVars, answer, streamed, storeAtStart, raised, llmFailed,
                    request, tempStore, stored, graphs, intent, classifierCalled,
                    genPc, workerPc, yielded, bag, executed >>

\* The end event of a node whose routing function has run.
NodeEnd ==
    /\ workerPc = "producing"
    /\ rt.node # "LangGraph"
    /\ rt.phase = "end"
    /\ Emit(ChainEnd(rt.node, rt.out), Absent)
    /\ rt' = Goto(Successor(rt.node, rt.label))
    /\ UNCHANGED << sideVars, answer, streamed, storeAtStart, raised, llmFailed,
                    request, tempStore, stored, graphs, intent, classifierCalled,
                    genPc, workerPc, yielded, bag, executed, routes >>

\* document_download_node: no URL or a failed download return {}.
DocDownloadNode ==
    /\ Running("doc_download", "body")
    /\ executed' = Append(executed, "doc_download")
    /\ \E ok \in BOOLEAN, stat \in {Absent} \cup {Some(n) : n \in DownloadSizes} :
          LET update == IF Truthy(InitialState.document_url) /\ ok
                        THEN [tmp_file_path |-> TmpPath] ELSE EmptyDict
          IN  /\ (update = EmptyDict => stat = Absent)
              /\ bag' = Merge(bag, update)
              /\ Emit(ChainEnd("doc_download", update), stat)
    /\ rt' = Goto(Successor("doc_download", ""))
    /\ UNCHANGED << sideVars, answer, streamed, storeAtStart, raised, llmFailed,
                    request, tempStore, stored, graphs, intent, classifierCalled,
                    genPc, workerPc, yielded, routes >>

\* document_processing_node: without a downloaded file nothing is processed;
\* otherwise DocumentProcessorTemp.process runs and every error is swallowed.
DocProcessNode ==
    /\ Running("doc_process", "body")
    /\ executed' = Append(executed, "doc_process")
    /\ IF Has(bag, "tmp_file_path") /\ Truthy(bag.safe_session_id)
       THEN \E outcome \in ProcessOutcomes :
               tempStore' = (tempStore \/ ProcessCreatesTable(outcome))
       ELSE tempStore' = tempStore
    /\ Emit(ChainEnd("doc_process", EmptyDict), Absent)
    /\ rt' = Goto(Successor("doc_process", ""))
    /\ UNCHANGED << sideVars, answer, streamed, storeAtStart, raised, llmFailed,
                    request, stored, graphs, intent, classifierCalled,
                    genPc, workerPc, yielded, bag, routes >>

\* policy_retriever_node: the retriever's result dictionary is the context.
PolicyRetrieverNode ==
    /\ Running("policy_retriever", "body")
    /\ executed' = Append(executed, "policy_retriever")
    /\ \E result \in RetrieverResults :
          LET update == [policy_context |-> DictValue(result)] IN
          /\ bag' = Merge(bag, update)
          /\ AfterBody("policy_retriever", update)
    /\ UNCHANGED << sideVars, answer, streamed, storeAtStart, raised, llmFailed,
                    request, tempStore, stored, graphs, intent, classifierCalled,
                    genPc, workerPc, yielded, routes >>

\* route_after_policy runs; its end event follows.
RouteAfterPolicy ==
    /\ Running("policy_retriever", "route")
    /\ \E lookupOk \in BOOLEAN :
          LET has_temp == Truthy(bag.safe_session_id) /\ lookupOk /\ tempStore
              label == route_after_policy(has_temp)
          IN  /\ rt' = [rt EXCEPT !.phase = "end", !.label = label]
              /\ routes' = Append(routes, label)
              /\ Emit(ChainEnd("route_after_policy", [label |-> label]), Absent)
    /\ UNCHANGED << sideVars, answer, streamed, storeAtStart, raised, llmFailed,
                    request, tempStore, stored, graphs, intent, classifierCalled,
                    genPc, workerPc, yielded, bag, executed >>

\* document_retriever_node: a failed retrieval (also a missing table) gives [].
DocRetrieverNode ==
    /\ Running("doc_retriever", "body")
    /\ executed' = Append(executed, "doc_retriever")
    /\ \E result \in RetrieverResults :
          LET update == [doc_context |->
                           ListValue(IF tempStore THEN DocContextOf(result) ELSE << >>)]
          IN  /\ bag' = Merge(bag, update)
              /\ AfterBody("doc_retriever", update)
    /\ UNCHANGED << sideVars, answer, streamed, storeAtStart, raised, llmFailed,
                    request, tempStore, stored, graphs, intent, classifierCalled,
                    genPc, workerPc, yielded, routes >>

\* context_combination_node
ContextCombineNode ==
    /\ Running("context_combine", "body")
    /\ executed' = Append(executed, "context_combine")
    /\ LET update == [full_user_message |->
                        FullUserMessage(InitialState.message, Has(bag, "policy_context"),
                                        Has(bag, "doc_context") /\ bag.doc_context.v # << >>)]
       IN  /\ bag' = Merge(bag, update)
           /\ AfterBody("context_combine", update)
    /\ UNCHANGED << sideVars, answer, streamed, storeAtStart, raised, llmFailed,
                    request, tempStore, stored, graphs, intent, classifierCalled,
                    genPc, workerPc, yielded, routes >>

\* llm_node / general_llm_node up to _LLM.invoke: the model's start event.
LlmInvoke ==
    /\ Running("llm", "body")
    /\ executed' = Append(executed, "llm")
    /\ Emit(ChatModelStart, Absent)
    /\ rt' = [rt EXCEPT !.phase = "generating", !.out = [tokens |-> << >>]]
    /\ UNCHANGED << sideVars, answer, streamed, storeAtStart, raised, llmFailed,
                    request, tempStore, stored, graphs, intent, classifierCalled,
                    genPc, workerPc, yielded, bag, routes >>

\* The model streams one more chunk.
LlmToken ==
    /\ Running("llm", "generating")
    /\ Len(rt.out.tokens) < MaxTokens
    /\ \E token \in TokenChoices(Len(rt.out.tokens) + 1) :
          /\ Emit(ChatModelStream(token), Absent)
          /\ rt' = [rt EXCEPT !.out = [tokens |-> Append(rt.out.tokens, token)]]
          /\ streamed' = Append(streamed, token)
    /\ UNCHANGED << sideVars, answer, storeAtStart, raised, llmFailed,
                    request, tempStore, stored, graphs, intent, classifierCalled,
                    genPc, workerPc, yielded, bag, executed, routes >>

\* _LLM.invoke returns: the model's end event; the node's update is the content.
LlmReturns ==
    /\ Running("llm", "generating")
    /\ LET content == Concat(rt.out.tokens) IN
          /\ Emit(ChatModelEnd(content), Absent)
          /\ bag' = Merge(bag, [response |-> content])
          /\ rt' = [rt EXCEPT !.phase = "end", !.out = [response |-> content]]
    /\ UNCHANGED << sideVars, answer, streamed, storeAtStart, raised, llmFailed,
                    request, tempStore, stored, graphs, intent, classifierCalled,
                    genPc, workerPc, yielded, executed, routes >>

\* Variant of llm_node without its try/except: the exception leaves the graph.
LlmRaisesUncaught ==
    /\ Running("llm", "generating")
    /\ llmFailed' = TRUE
    /\ raised' = Some([node |-> "llm", error |-> <<"generation failed">>])
    /\ Put(<< ErrorFrame(<<"generation failed">>) >>)
    /\ workerPc' = "finally_end"
    /\ UNCHANGED << sideVars, answer, streamed, storeAtStart,
                    request, tempStore, stored, graphs, intent,
                    classifierCalled, genPc, yielded, rt, bag, executed, rawEvents,
                    lastEvent, routes >>

\* _LLM.invoke raises: the except branch returns the fallback response and the
\* node ends.
LlmRaises ==
    /\ Running("llm", "generating")
    /\ llmFailed' = TRUE
    /\ bag' = Merge(bag, [response |-> FallbackText])
    /\ Emit(ChainEnd("llm", [response |-> FallbackText]), Absent)
    /\ rt' = Goto(Successor("llm", ""))
    /\ UNCHANGED << sideVars, answer, streamed, storeAtStart, raised,
                    request, tempStore, stored, graphs, intent, classifierCalled,
                    genPc, workerPc, yielded, executed, routes >>

\* Variant of session_update_node in which a failed write leaves the graph as
\* an exception.
SessionUpdateNodeRaising ==
    /\ Running("session_update", "body")
    /\ executed' = Append(executed, "session_update")
    /\ \E outcome \in SaveOutcomes :
          /\ stored' = update_session_history(stored, InitialState.message,
                           IF Has(bag, "response") THEN bag.response ELSE << >>, outcome)
          /\ IF outcome = "saved"
             THEN /\ AfterBody("session_update", EmptyDict)
                  /\ UNCHANGED << raised, workerPc >>
             ELSE /\ raised' = Some([node |-> "session_update",
                                     error |-> <<"Failed to save message">>])
                  /\ Put(<< ErrorFrame(<<"Failed to save message">>) >>)
                  /\ workerPc' = "finally_end"
                  /\ UNCHANGED << rt, rawEvents, lastEvent >>
    /\ UNCHANGED << sideVars, answer, streamed, storeAtStart, llmFailed,
                    request, tempStore, graphs, intent, classifierCalled,
                    genPc, yielded, bag, routes >>

\* session_update_node / general_session_update_node
SessionUpdateNode ==
    /\ Running("session_update", "body")
    /\ executed' = Append(executed, "session_update")
    /\ \E outcome \in SaveOutcomes :
          stored' = update_session_history(stored, InitialState.message,
                        IF Has(bag, "response") THEN bag.response ELSE << >>, outcome)
    /\ AfterBody("session_update", EmptyDict)
    /\ UNCHANGED << sideVars, answer, streamed, storeAtStart, raised, llmFailed,
                    request, tempStore, graphs, intent, classifierCalled,
                    genPc, workerPc, yielded, bag, routes >>

\* output_node / general_output_node
OutputNode ==
    /\ Running("output", "body")
    /\ executed' = Append(executed, "output")
    /\ \E readOk \in BOOLEAN :
          LET response_text == IF Has(bag, "response") THEN bag.response ELSE << >>
              update == [content |-> response_text,
                         history |-> ListValue(get_session_history(stored, readOk))]
          IN  /\ bag' = Merge(bag, [history |-> update.history])
              /\ Emit(ChainEndWithInput("output", update, [response |-> response_text]),
                      Absent)
    /\ rt' = Goto(Successor("output", ""))
    /\ UNCHANGED << sideVars, answer, streamed, storeAtStart, raised, llmFailed,
                    request, tempStore, stored, graphs, intent, classifierCalled,
                    genPc, workerPc, yielded, routes >>

\* The graph's own end event; the event stream is exhausted and async_producer
\* leaves its try block.
RootEnd ==
    /\ Running("LangGraph", "end")
    /\ Emit(ChainEnd("LangGraph", bag), Absent)
    /\ rt' = [rt EXCEPT !.phase = "exhausted"]
    /\ workerPc' = "finally_end"
    /\ UNCHANGED << sideVars, answer, streamed, storeAtStart, raised, llmFailed,
                    request, tempStore, stored, graphs, intent, classifierCalled,
                    genPc, yielded, bag, executed, routes >>

\* Variant of the producer's finally block that puts no end frame.
FinallyWithoutEnd ==
    /\ workerPc = "finally_end"
    /\ workerPc' = "finally_none"
    /\ UNCHANGED << sideVars, answer, streamed, storeAtStart, raised, llmFailed,
                    request, tempStore, stored, graphs, intent, classifierCalled,
                    genPc, q, pushed, yielded, rt, bag, executed, rawEvents, lastEvent,
                    routes >>

\* async_producer, finally: the end frame is put.
FinallyPutEnd ==
    /\ workerPc = "finally_end"
    /\ Put(<< EndFrame >>)
    /\ workerPc' = "finally_none"
    /\ UNCHANGED << sideVars, answer, streamed, storeAtStart, raised, llmFailed,
                    request, tempStore, stored, graphs, intent, classifierCalled,
                    genPc, yielded, rt, bag, executed, rawEvents, lastEvent, routes >>

\* async_producer, finally: None is put; the coroutine and the thread end.
FinallyPutNone ==
    /\ workerPc = "finally_none"
    /\ Put(<< None >>)
    /\ workerPc' = "exited"
    /\ UNCHANGED << sideVars, answer, streamed, storeAtStart, raised, llmFailed,
                    request, tempStore, stored, graphs, intent, classifierCalled,
                    genPc, yielded, rt, bag, executed, rawEvents, lastEvent, routes >>

Worker ==
    \/ BackgroundLoopStarts \/ BackgroundLoopFails
    \/ RootStart \/ NodeStart \/ NodeEnd \/ RootEnd
    \/ InputNode \/ InputNodeRaises \/ HistoryNode \/ RouteAfterHistory
    \/ DocDownloadNode \/ DocProcessNode \/ PolicyRetrieverNode \/ RouteAfterPolicy
    \/ DocRetrieverNode \/ ContextCombineNode
    \/ LlmInvoke \/ LlmToken \/ LlmReturns \/ LlmRaises
    \/ SessionUpdateNode \/ OutputNode
    \/ FinallyPutEnd \/ FinallyPutNone

Next ==
    \/ CreateStreamRaises
    \/ CreateStream
    \/ GeneratorStart
    \/ GeneratorGet
    \/ Worker

Spec == Init /\ [][Next]_vars

\* ---------------------------------------------------------------------------
\* Observations of a run, used to state the properties below.
\* ---------------------------------------------------------------------------

IsPrefix(s, t) == Len(s) <= Len(t) /\ s = SubSeq(t, 1, Len(s))

\* Node n has executed its body.
Ran(n) == \E i \in 1..Len(executed) : executed[i] = n

\* One of session_id, message, user_id is missing or empty.
InvalidRequest ==
    \/ ~Truthy(request.session_id)
    \/ ~Truthy(request.message)
    \/ ~Truthy(request.user_id)

\* The producer has left the graph's event loop (normally or by an exception).
WorkerInFinally == workerPc \in {"finally_end", "finally_none", "exited"}

\* The types of a sequence of SSE frames.
FrameTypes(lines) == [i \in 1..Len(lines) |-> PayloadOf(lines[i]).type]

\* The payloads of the stage frames of a sequence of SSE frames, and their
\* node names.
StageFrames(lines) == SelectSeq(lines, LAMBDA l : PayloadOf(l).type = "stage")
StageNames(lines) ==
    [i \in 1..Len(StageFrames(lines)) |-> PayloadOf(StageFrames(lines)[i]).node]

\* The elements of a sequence in order of first appearance.
RECURSIVE FirstAppearance(_)
FirstAppearance(seq) ==
    IF seq = << >> THEN << >>
    ELSE LET front == FirstAppearance(SubSeq(seq, 1, Len(seq) - 1))
             last == seq[Len(seq)]
         IN  IF \E i \in 1..Len(front) : front[i] = last THEN front
             ELSE Append(front, last)

\* What the consumer has taken off the queue so far.
Received == IF genPc = "done" THEN Append(yielded, None) ELSE yielded

PolicyNoDocPath ==
    << "input", "history", "policy_retriever", "context_combine", "llm",
       "session_update", "output" >>
PolicyWithDocPath ==
    << "input", "history", "doc_download", "doc_process", "policy_retriever",
       "doc_retriever", "context_combine", "llm", "session_update", "output" >>
PolicyDocFailedPath ==
    << "input", "history", "doc_download", "doc_process", "policy_retriever",
       "context_combine", "llm", "session_update", "output" >>
GeneralPath == << "input", "history", "llm", "session_update", "output" >>

\* ---------------------------------------------------------------------------
\* Properties
\* ---------------------------------------------------------------------------

\* C1: in every run of the producer (successful, failed validation, unhandled
\* node failure) the generator yields exactly one end frame, it is the last
\* frame yielded, and None itself is never yielded.
C1_OneEndFrameLast ==
    /\ \A i \in 1..Len(yielded) :
          /\ yielded[i] # None
          /\ (PayloadOf(yielded[i]).type = "end" => i = Len(yielded))
    /\ (genPc = "done" =>
          /\ yielded # << >>
          /\ yielded[Len(yielded)] = EndFrame)

C1_Witness ==
    /\ genPc = "done"
    /\ Ran("output")
    /\ Len(yielded) > 5
    /\ yielded[Len(yielded)] = EndFrame

\* C2: once the worker thread has been started, the consumer is never left
\* waiting on an empty queue that nobody will fill: when the worker thread has
\* ended and the queue is empty, the consumer has received None and stopped.
C2_ConsumerNeverStranded ==
    (workerPc \in {"dead", "exited"} /\ q = << >>) => genPc = "done"

C4_QueuePreservesOrder ==
    /\ [](Received \o q = pushed)
    /\ [][ /\ IsPrefix(pushed, pushed')
           /\ (rawEvents' # rawEvents =>
                 /\ Len(rawEvents') = Len(rawEvents) + 1
                 /\ pushed' = pushed \o SerializeAll(
                       format_event_for_ui(lastEvent'.ev, InitialState', lastEvent'.stat)))
         ]_vars

C4_Witness ==
    /\ genPc = "pulling"
    /\ workerPc = "producing"
    /\ Len(yielded) >= 2
    /\ Len(q) >= 2
    /\ Len(rawEvents) >= 6

\* C5: once a node has raised an exception it does not catch, that node is the
\* last one to have executed, the producer has left the graph, and the stream
\* the consumer ends up with has the error frame carrying the exception's
\* message and then the end frame as its last two frames.
C5_NodeFailureEndsRun ==
    raised # Absent =>
       /\ executed # << >>
       /\ executed[Len(executed)] = raised[1].node
       /\ WorkerInFinally
       /\ (genPc = "done" =>
             /\ Len(yielded) >= 2
             /\ PayloadOf(yielded[Len(yielded) - 1]) =
                   [type |-> "error", error |-> raised[1].error]
             /\ yielded[Len(yielded)] = EndFrame)

C5_Witness ==
    /\ raised # Absent
    /\ genPc = "done"
    /\ executed = << "input" >>

\* C6: in a policy-pipeline run with no document URL and no temporary store at
\* the start of the run, doc_download and doc_process never execute and no
\* frame names them.
C6_NoDocumentNodesWithoutDocument ==
    (intent = "company_policy" /\ ~Truthy(request.document_url) /\ ~storeAtStart) =>
       /\ ~Ran("doc_download")
       /\ ~Ran("doc_process")
       /\ \A i \in 1..Len(pushed) :
             (pushed[i] # None /\ Has(PayloadOf(pushed[i]), "node")) =>
                PayloadOf(pushed[i]).node \notin {"doc_download", "doc_process"}

C6_Witness ==
    /\ intent = "company_policy"
    /\ ~Truthy(request.document_url)
    /\ ~storeAtStart
    /\ genPc = "done"
    /\ executed = PolicyNoDocPath

\* C7 (as stated): in every policy-pipeline run with a document URL and no
\* prior temporary store, the nodes up to context_combine execute in the order
\* doc_download, doc_process, policy_retriever, doc_retriever.
C7_DocRetrieverAlwaysRuns ==
    (/\ intent = "company_policy"
     /\ Truthy(request.document_url)
     /\ ~storeAtStart
     /\ Ran("context_combine")) =>
       IsPrefix(executed, PolicyWithDocPath)

\* C7 (amended): in such a run doc_download and then doc_process execute before
\* policy_retriever; doc_retriever executes, right after policy_retriever and
\* before context_combine, exactly when route_after_policy finds the temporary
\* store, which exists only if the download and the processing created it;
\* otherwise context_combine follows policy_retriever directly.
C7_DocRetrieverNeedsStore ==
    (intent = "company_policy" /\ Truthy(request.document_url) /\ ~storeAtStart) =>
       /\ \/ IsPrefix(executed, PolicyWithDocPath)
          \/ IsPrefix(executed, PolicyDocFailedPath)
       /\ (Len(routes) >= 1 => routes[1] = "with_doc")
       /\ (Len(routes) >= 2 =>
             /\ (routes[2] = "need_doc" => tempStore)
             /\ (~tempStore => routes[2] = "no_doc_needed"))
       /\ (Ran("doc_retriever") => (routes[2] = "need_doc" /\ tempStore))
       /\ (Ran("context_combine") =>
             (Ran("doc_retriever") <=> routes[2] = "need_doc"))

C7_Witness ==
    /\ intent = "company_policy"
    /\ Truthy(request.document_url)
    /\ ~storeAtStart
    /\ genPc = "done"
    /\ executed = PolicyWithDocPath

\* C8: for "What is our vacation policy?" with no document URL and no temporary
\* store, the rule-based classification gives the policy intent without the
\* external classifier being called, and the nodes execute in the order input,
\* history, policy_retriever, context_combine, llm, session_update, output, no
\* document node among them.
C8_VacationPolicyRun ==
    (/\ request.message = MsgVacation
     /\ ~Truthy(request.document_url)
     /\ ~storeAtStart
     /\ genPc # "request") =>
       /\ intent = "company_policy"
       /\ ~classifierCalled
       /\ IsPrefix(executed, PolicyNoDocPath)
       /\ ((~InvalidRequest /\ WorkerInFinally) => executed = PolicyNoDocPath)

C8_Witness ==
    /\ request.message = MsgVacation
    /\ ~Truthy(request.document_url)
    /\ ~storeAtStart
    /\ ~classifierCalled
    /\ genPc = "done"
    /\ executed = PolicyNoDocPath

\* C9 (as stated): for "Hello!" with no document URL the intent is general and
\* the node names of the stage frames, in order of first appearance, are
\* exactly input, history, llm, session_update, output.
C9_StageSequenceIsNodePath ==
    (/\ request.message = MsgHello
     /\ ~Truthy(request.document_url)
     /\ ~InvalidRequest
     /\ genPc = "done") =>
       /\ intent = "general"
       /\ FirstAppearance(StageNames(yielded)) = GeneralPath

\* C9 (amended): for "Hello!" with no document URL the intent is general and
\* the node names of the stage frames, in order of first appearance, are
\* langgraph (the graph's own start event, formatted by the generic fallback)
\* followed by input, history, llm, session_update, output; no node of the
\* policy pipeline appears.
C9_StageSequenceAfterGraphStart ==
    (/\ request.message = MsgHello
     /\ ~Truthy(request.document_url)
     /\ ~InvalidRequest
     /\ genPc # "request") =>
       /\ intent = "general"
       /\ IsPrefix(FirstAppearance(StageNames(yielded)), << "langgraph" >> \o GeneralPath)
       /\ (genPc = "done" =>
             FirstAppearance(StageNames(yielded)) = << "langgraph" >> \o GeneralPath)

C9_Witness ==
    /\ request.message = MsgHello
    /\ ~Truthy(request.document_url)
    /\ ~InvalidRequest
    /\ genPc = "done"
    /\ intent = "general"
    /\ Len(StageNames(yielded)) >= 6

\* C10: once the generation call has raised inside the llm node (of either
\* pipeline), the response is the pipeline's fixed fallback text, no exception
\* leaves the graph, session_update and then output execute next, what is
\* stored as the assistant's message is the fallback text, the final frame
\* carries the fallback text and the stream ends with the end frame.
C10_FallbackReachesFinalFrame ==
    llmFailed =>
       /\ raised = Absent
       /\ Has(bag, "response")
       /\ bag.response = (IF intent = "general" THEN GeneralFallback ELSE PolicyFallback)
       /\ \E k \in 1..Len(executed) :
             /\ executed[k] = "llm"
             /\ IsPrefix(SubSeq(executed, k, Len(executed)),
                         << "llm", "session_update", "output" >>)
       /\ (WorkerInFinally => (Ran("session_update") /\ Ran("output")))
       /\ \A i \in 1..Len(stored) :
             stored[i].role = "assistant" => stored[i].content = bag.response
       /\ (genPc = "done" =>
             /\ Len(yielded) >= 2
             /\ yielded[Len(yielded)] = EndFrame
             /\ \E i \in 1..Len(yielded) :
                   /\ PayloadOf(yielded[i]).type = "final"
                   /\ PayloadOf(yielded[i]).content = bag.response
             /\ \A i \in 1..Len(yielded) :
                   PayloadOf(yielded[i]).type = "final" =>
                      PayloadOf(yielded[i]).content = bag.response)

C10_Witness ==
    /\ llmFailed
    /\ genPc = "done"
    /\ Ran("output")
    /\ \E i \in 1..Len(stored) :
          stored[i].role = "assistant" /\ stored[i].content = bag.response

\* The frames put so far, without the closing None, and the contents of the
\* frames of one type among them.
PushedFrames == SelectSeq(pushed, LAMBDA l : l # None)
ContentsOf(type) ==
    LET frames == SelectSeq(pushed, LAMBDA l : l # None /\ PayloadOf(l).type = type)
    IN  [i \in 1..Len(frames) |-> PayloadOf(frames[i]).content]

\* The chunks streamed so far that carry text.
StreamedWithText == SelectSeq(streamed, LAMBDA token : token # << >>)

C19_InvalidRequestStopsAtInput ==
    InvalidRequest =>
       /\ \A i \in 1..Len(executed) : executed[i] = "input"
       /\ Len(executed) <= 1
       /\ stored = << >>
       /\ ~Has(bag, "response")
       /\ (WorkerInFinally /\ Ran("input") =>
              raised # Absent /\ raised[1].node = "input")

C19_Witness ==
    /\ InvalidRequest
    /\ workerPc = "exited"
    /\ executed = << "input" >>
    /\ raised # Absent
    /\ stored = << >>

\* The producer thread exists and has not ended.
WorkerAlive == workerPc \in {"started", "producing", "finally_end", "finally_none"}

\* C20: a put on the queue is possible whatever the queue already holds, and
\* while the consumer has pulled nothing a live producer thread always has a
\* step to take; when the thread has ended it has put the end frame and None
\* last, and in a run without a raised exception it has executed
\* session_update and output.
C20_ProducerNeverWaitsForConsumer ==
    /\ ENABLED Put(<< EndFrame >>)
    /\ (WorkerAlive /\ yielded = << >>) => ENABLED Worker
    /\ workerPc = "exited" /\ pushed # << >> =>
          /\ Len(pushed) >= 2
          /\ pushed[Len(pushed)] = None
          /\ pushed[Len(pushed) - 1] = EndFrame
          /\ (raised = Absent => Ran("session_update") /\ Ran("output"))

C20_Witness ==
    /\ workerPc = "exited"
    /\ genPc = "pulling"
    /\ yielded = << >>
    /\ Len(q) = Len(pushed)
    /\ Len(q) > 2
    /\ Ran("session_update")

\* ------------------------------------------- classification on its own

\* The run-time part of the state before any request has been served.
RunIdle ==
    /\ stored = << >>
    /\ graphs = {}
    /\ intent = NoIntent
    /\ classifierCalled = FALSE
    /\ genPc = "request"
    /\ workerPc = "notstarted"
    /\ q = << >>
    /\ pushed = << >>
    /\ yielded = << >>
    /\ rt = [node |-> "LangGraph", phase |-> "start", out |-> EmptyDict, label |-> ""]
    /\ bag = EmptyDict
    /\ executed = << >>
    /\ rawEvents = << >>
    /\ lastEvent = NoEvent
    /\ routes = << >>
    /\ raised = Absent
    /\ llmFailed = FALSE
    /\ streamed = << >>
    /\ answer = Absent

\* Words a message is made of: a policy keyword, a policy keyword in upper
\* case, a casual, a capability and a history keyword, a word that holds the
\* policy keyword "hr" inside it, a word without any keyword, and no word.
Vocabulary ==
    { <<"v","a","c","a","t","i","o","n">>,
      <<"H","R">>,
      <<"H","e","l","l","o">>,
      <<"h","e","l","p"," ","M","e">>,
      <<"r","e","m","e","m","b","e","r">>,
      <<"t","h","r","e","e">>,
      <<"x","y","z">>,
      << >> }

\* Whitespace around a message.
Padding == { << >>, <<" ", "\n">> }

\* The messages classification is checked on: two words, with and without
\* surrounding whitespace.
ClassifyMessages ==
    { pad \o first \o <<" ">> \o second \o pad :
         first \in Vocabulary, second \in Vocabulary, pad \in Padding }

\* A request with one of those messages arrives at a fresh orchestrator.
InitClassify ==
    /\ request \in [session_id : {SessionDash}, user_id : {UserOne},
                    message : ClassifyMessages, document_url : {None}]
    /\ tempStore = FALSE
    /\ storeAtStart = FALSE
    /\ RunIdle
    /\ SideIdle

\* The request is classified (Orchestrator.create_stream_generator up to the
\* creation of the generator).
SpecClassify == InitClassify /\ [][CreateStream]_vars

\* Some keyword of the list occurs in the lower-cased message.
Matches(keywords) ==
    \E i \in 1..Len(keywords) : Contains(Lower(request.message), keywords[i])

\* C13: a message with a policy keyword is company_policy, whatever else it
\* matches; a message without one and with a casual, capability or history
\* keyword is general; the external classifier is called exactly when no
\* keyword of any list matches; case and surrounding whitespace of the
\* message make no difference.
C13_FirstMatchingListDecides ==
    genPc = "created" =>
       /\ Matches(policy_keywords) => intent = "company_policy"
       /\ (~Matches(policy_keywords)
           /\ (Matches(casual_keywords) \/ Matches(capability_keywords)
               \/ Matches(history_keywords))) => intent = "general"
       /\ classifierCalled <=>
             ~(Matches(policy_keywords) \/ Matches(casual_keywords)
               \/ Matches(capability_keywords) \/ Matches(history_keywords))
       /\ classifierCalled <=> (answer # Absent)

C13_Witness ==
    /\ genPc = "created"
    /\ Matches(policy_keywords)
    /\ Matches(casual_keywords)
    /\ request.message # Strip(Lower(request.message))
    /\ intent = "company_policy"
    /\ ~classifierCalled

\* C14: the intent of a classified request is company_policy or general; when
\* the external classifier was called, the intent is company_policy only if
\* the stripped, lower-cased answer is exactly that label, and general for
\* every other answer and when the call raised.
C14_UnrecognisedAnswerIsGeneral ==
    genPc = "created" =>
       /\ intent \in {"company_policy", "general"}
       /\ answer # Absent =>
             /\ intent = "company_policy" <=>
                   /\ answer[1] # ClassifierRaises
                   /\ Strip(Lower(answer[1])) = TextCompanyPolicy
             /\ answer[1] = ClassifierRaises => intent = "general"

C14_Witness ==
    /\ genPc = "created"
    /\ answer # Absent
    /\ answer[1] # ClassifierRaises
    /\ Contains(Lower(answer[1]), TextCompanyPolicy)
    /\ Strip(Lower(answer[1])) # TextCompanyPolicy
    /\ intent = "general"

\* ------------------------------------ get_graph called from request threads

\* The variables of one run, which the calls below leave alone.
runVars ==
    << request, tempStore, stored, graphs, intent, classifierCalled, genPc,
       workerPc, q, pushed, yielded, rt, bag, executed, rawEvents, lastEvent,
       routes, storeAtStart, raised, llmFailed, streamed, answer >>

\* The intents get_graph knows, and one it does not.
GraphIntents == {"company_policy", "general"}
UnknownIntent == "unknown"

\* The request threads that call get_graph on the one orchestrator.
CallerIds == {"t1", "t2"}

\* A thread that is not inside get_graph; got holds the graph instances the
\* thread's calls have returned so far, per intent.  Instance 0 is None.
CallerIdle ==
    [pc |-> "idle", intent |-> UnknownIntent, graph |-> 0,
     got |-> [i \in GraphIntents |-> {}]]

InitGetGraph ==
    /\ request \in [session_id : {SessionDash}, user_id : {UserOne},
                    message : {MsgHello}, document_url : {None}]
    /\ tempStore = FALSE
    /\ storeAtStart = FALSE
    /\ RunIdle
    /\ run = 1
    /\ firstStages = << >>
    /\ graphCache = [i \in GraphIntents |-> 0]
    /\ built = [i \in GraphIntents |-> 0]
    /\ callers = [t \in CallerIds |-> CallerIdle]
    /\ pending = << >>
    /\ fmtIn = << >>
    /\ fmtOut = << >>

\* A thread enters get_graph(intent) with a known intent.
GetGraphCall(t) ==
    /\ callers[t].pc \in {"idle", "returned"}
    /\ \E i \in GraphIntents :
          callers' = [callers EXCEPT ![t].pc = "test", ![t].intent = i]
    /\ UNCHANGED << runVars, run, firstStages, graphCache, built, pending, fmtIn, fmtOut >>

\* A thread calls get_graph with an intent that is neither: ValueError.
GetGraphUnknown(t) ==
    /\ callers[t].pc \in {"idle", "returned"}
    /\ callers' = [callers EXCEPT ![t].pc = "raised", ![t].intent = UnknownIntent]
    /\ UNCHANGED << runVars, run, firstStages, graphCache, built, pending, fmtIn, fmtOut >>

\* `if self.<intent>_graph is None:` the thread reads the attribute.
GetGraphTest(t) ==
    /\ callers[t].pc = "test"
    /\ callers' = [callers EXCEPT
                      ![t].pc = IF graphCache[callers[t].intent] = 0
                                THEN "build" ELSE "return"]
    /\ UNCHANGED << runVars, run, firstStages, graphCache, built, pending, fmtIn, fmtOut >>

\* build_company_policy_graph() / build_general_purpose_graph(): a new graph
\* instance is constructed.
GetGraphBuild(t) ==
    /\ callers[t].pc = "build"
    /\ built' = [built EXCEPT ![callers[t].intent] = @ + 1]
    /\ callers' = [callers EXCEPT ![t].pc = "assign",
                                  ![t].graph = built[callers[t].intent] + 1]
    /\ UNCHANGED << runVars, run, firstStages, graphCache, pending, fmtIn, fmtOut >>

\* `self.<intent>_graph = <the new graph>`
GetGraphAssign(t) ==
    /\ callers[t].pc = "assign"
    /\ graphCache' = [graphCache EXCEPT ![callers[t].intent] = callers[t].graph]
    /\ callers' = [callers EXCEPT ![t].pc = "return"]
    /\ UNCHANGED << runVars, run, firstStages, built, pending, fmtIn, fmtOut >>

\* `return self.<intent>_graph`: the attribute is read again.
GetGraphReturn(t) ==
    /\ callers[t].pc = "return"
    /\ callers' = [callers EXCEPT
                      ![t].pc = "returned",
                      ![t].got[callers[t].intent] = @ \cup {graphCache[callers[t].intent]}]
    /\ UNCHANGED << runVars, run, firstStages, graphCache, built, pending, fmtIn, fmtOut >>

NextGetGraph ==
    \E t \in CallerIds :
       \/ GetGraphCall(t)
       \/ GetGraphUnknown(t)
       \/ GetGraphTest(t)
       \/ GetGraphBuild(t)
       \/ GetGraphAssign(t)
       \/ GetGraphReturn(t)

SpecGetGraph == InitGetGraph /\ [][NextGetGraph]_vars

\* The graph instances get_graph has returned for an intent, to any thread.
Returned(i) == UNION { callers[t].got[i] : t \in CallerIds }

\* C15: the graph of each intent is constructed at most once, and all calls
\* for an intent, from whatever thread, return one and the same instance.
C15_GraphBuiltAtMostOnce ==
    \A i \in GraphIntents :
       /\ built[i] <= 1
       /\ Cardinality(Returned(i)) <= 1

\* ------------------------------------------ format_event_for_ui on its own

\* An event that is not a mapping (None, a string, a list): it has no get.
EventNotMapping == [notmapping |-> TRUE]

\* A node name that is not a string (an integer).
NonStringName == "<123>"

\* An initial state that is missing (None).
MissingState == [missing |-> TRUE]

\* Line 109, `node_name = (event.get("name") or "").lower()`, raises
\* AttributeError: the event has no get, or the name has no lower.  Neither
\* node_name nor ev_type is bound then.
FormatHeadRaises(event) ==
    \/ ~Has(event, "name")
    \/ event.name = NonStringName

\* A branch of the try block calls initial_state.get on a missing initial
\* state: the input start branch, the input end branch when the output has
\* no safe_session_id, and the doc_download start branch.
FormatBodyRaises(event, initial_state) ==
    /\ Has(initial_state, "missing")
    /\ event.event \notin {"on_chat_model_stream", "on_chat_model_end"}
    /\ \/ /\ LowerName(event.name) \in {"input", "input_node"}
          /\ \/ event.event = "on_chain_start"
             \/ /\ event.event = "on_chain_end"
                /\ LET got == OutputGet(event.data, "safe_session_id")
                   IN  got = Absent \/ ~Truthy(got[1])
       \/ /\ LowerName(event.name) \in {"doc_download", "document_download_node"}
          /\ event.event = "on_chain_start"

\* str(e) of the AttributeError raised by None.get.
NoGetMessage == <<"'NoneType' object has no attribute 'get'">>

\* One call of format_event_for_ui, with its try/except and the statements
\* after it: what the call raises to its caller (nothing when Absent) and the
\* payload list it returns when it returns.  When line 109 raised, the except
\* branch sets the error payload, and the print before `return payloads` reads
\* the unbound ev_type: UnboundLocalError leaves the function.
FormatCall(event, initial_state, statSize) ==
    IF FormatHeadRaises(event)
    THEN [raises |-> Some("UnboundLocalError"), caught |-> TRUE, payloads |-> << >>]
    ELSE IF FormatBodyRaises(event, initial_state)
    THEN [raises |-> Absent, caught |-> TRUE,
          payloads |-> << [type |-> "error", error |-> NoGetMessage] >>]
    ELSE [raises |-> Absent, caught |-> FALSE,
          payloads |-> format_event_for_ui(event, initial_state, statSize)]

\* The names, event types, data sections and initial states the formatter is
\* called with: every node of the two graphs, the graph itself, a node the
\* formatter has no branch for, the empty name and a name that is no string.
FormatNames ==
    { "input", "history", "doc_download", "doc_process", "policy_retriever",
      "doc_retriever", "context_combine", "llm", "session_update", "output",
      "LangGraph", "custom_node", "", NonStringName }
FormatEventTypes ==
    { "on_chain_start", "on_chain_end", "on_chain_stream",
      "on_chat_model_stream", "on_chat_model_end" }
FormatData ==
    { EmptyDict, NonDictData(<<"x">>), [state |-> [document_url |-> UrlPdf]] }
FormatStates ==
    { [session_id |-> SessionDash, user_id |-> UserOne, message |-> MsgHello,
       document_url |-> None],
      [session_id |-> SessionDash, user_id |-> UserOne, message |-> MsgHello,
       document_url |-> UrlPdf],
      MissingState }
FormatEvents ==
    [name : FormatNames, event : FormatEventTypes, data : FormatData]
       \cup {EventNotMapping}

InitFormat ==
    /\ request \in [session_id : {SessionDash}, user_id : {UserOne},
                    message : {MsgHello}, document_url : {None}]
    /\ tempStore = FALSE
    /\ storeAtStart = FALSE
    /\ RunIdle
    /\ run = 1
    /\ firstStages = << >>
    /\ graphCache = [i \in GraphIntents |-> 0]
    /\ built = [i \in GraphIntents |-> 0]
    /\ callers = << >>
    /\ pending = << >>
    /\ fmtIn \in { << [event |-> e, initial_state |-> st] >> :
                      e \in FormatEvents, st \in FormatStates }
    /\ fmtOut = << >>

\* format_event_for_ui is called on the input.
Format ==
    /\ fmtOut = << >>
    /\ fmtOut' = << FormatCall(fmtIn[1].event, fmtIn[1].initial_state, Absent) >>
    /\ UNCHANGED << runVars, run, firstStages, graphCache, built, callers, pending, fmtIn >>

SpecFormat == InitFormat /\ [][Format]_vars

\* C16: every call returns a list and raises nothing, and a call in which an
\* exception occurred returns exactly one payload, of type error.
C16_FormatterNeverRaises ==
    fmtOut # << >> =>
       /\ fmtOut[1].raises = Absent
       /\ fmtOut[1].caught =>
             /\ Len(fmtOut[1].payloads) = 1
             /\ fmtOut[1].payloads[1].type = "error"

\* The call was made on a start or end event of a named node.
NamedNodeEdge ==
    /\ fmtOut # << >>
    /\ Has(fmtIn[1].event, "name")
    /\ fmtIn[1].event.name \notin {"", NonStringName}
    /\ fmtIn[1].event.event \in {"on_chain_start", "on_chain_end"}

\* C17: a call on a start or end event of a named node returns at least one
\* payload.
C17_EveryNodeEdgeHasPayload ==
    NamedNodeEdge => Len(fmtOut[1].payloads) >= 1

\* ------------------------------------- the producer loop on given raw events

\* Raw events the graph may hand to async_producer: the input node's start,
\* the input node's end with a safe_session_id that json.dumps cannot encode,
\* a streamed chunk, and the output node's end.
ProducerEvents ==
    { ChainStart("input"),
      ChainEnd("input", [safe_session_id |-> Opaque]),
      ChatModelStream(<<"t1">>),
      ChainEnd("output", [response |-> <<"ok">>]) }

\* async_producer is running on a run of MaxEvents raw events and the
\* generator is pulling.
InitProducer ==
    /\ request \in [session_id : {SessionDash}, user_id : {UserOne},
                    message : {MsgHello}, document_url : {None}]
    /\ tempStore = FALSE
    /\ storeAtStart = FALSE
    /\ stored = << >>
    /\ graphs = {"general"}
    /\ intent = "general"
    /\ classifierCalled = FALSE
    /\ genPc = "pulling"
    /\ workerPc = "producing"
    /\ q = << >>
    /\ pushed = << >>
    /\ yielded = << >>
    /\ rt = [node |-> "LangGraph", phase |-> "given", out |-> EmptyDict, label |-> ""]
    /\ bag = EmptyDict
    /\ executed = << >>
    /\ rawEvents = << >>
    /\ lastEvent = NoEvent
    /\ routes = << >>
    /\ raised = Absent
    /\ llmFailed = FALSE
    /\ streamed = << >>
    /\ answer = Absent
    /\ run = 1
    /\ firstStages = << >>
    /\ graphCache = [i \in GraphIntents |-> 0]
    /\ built = [i \in GraphIntents |-> 0]
    /\ callers = << >>
    /\ pending \in [1..MaxEvents -> ProducerEvents]
    /\ fmtIn = << >>
    /\ fmtOut = << >>

\* One turn of `async for event in events`: the next raw event is formatted and
\* each payload serialized and put.
ProduceEvent ==
    /\ workerPc = "producing"
    /\ Len(rawEvents) < Len(pending)
    /\ Emit(pending[Len(rawEvents) + 1], Absent)
    /\ UNCHANGED << sideVars, answer, streamed, storeAtStart, raised, llmFailed,
                    request, tempStore, stored, graphs, intent, classifierCalled,
                    genPc, workerPc, yielded, rt, bag, executed, routes >>

\* The events are exhausted: the loop ends and the finally block begins.
ProducerExhausted ==
    /\ workerPc = "producing"
    /\ pending # << >>
    /\ Len(rawEvents) = Len(pending)
    /\ workerPc' = "finally_end"
    /\ UNCHANGED << sideVars, answer, streamed, storeAtStart, raised, llmFailed,
                    request, tempStore, stored, graphs, intent, classifierCalled,
                    genPc, q, pushed, yielded, rt, bag, executed, rawEvents,
                    lastEvent, routes >>

NextProducer ==
    \/ ProduceEvent
    \/ ProducerExhausted
    \/ FinallyPutEnd
    \/ FinallyPutNone
    \/ GeneratorGet

SpecProducer == InitProducer /\ [][NextProducer]_vars

\* The payloads of a sequence of raw events, in order.
RECURSIVE PayloadsOf(_)
PayloadsOf(events) ==
    IF events = << >> THEN << >>
    ELSE format_event_for_ui(Head(events), InitialState, Absent)
            \o PayloadsOf(Tail(events))

\* The frames put for the raw events (the end frame is not one of them).
EventFrames == SelectSeq(PushedFrames, LAMBDA l : l # EndFrame)

\* C18: the frames put for the events processed so far are, one for one and in
\* order, the payloads of those events; a payload that json.dumps cannot
\* encode has in its place one frame of type event holding the string form of
\* the payload; no frame of type error is put; the producer ends only after
\* every event of the run was processed, with the end frame and None last.
C18_SerializationFailureKeepsStream ==
    LET payloads == PayloadsOf(SubSeq(pending, 1, Len(rawEvents))) IN
    /\ Len(EventFrames) = Len(payloads)
    /\ \A i \in 1..Len(EventFrames) :
          /\ PayloadOf(EventFrames[i]).type # "error"
          /\ IF SerializationFails(payloads[i])
             THEN /\ PayloadOf(EventFrames[i]).type = "event"
                  /\ PayloadOf(EventFrames[i]).raw = RawOf(payloads[i])
             ELSE PayloadOf(EventFrames[i]) = payloads[i]
    /\ workerPc \in {"finally_end", "finally_none", "exited"} =>
          Len(rawEvents) = Len(pending)
    /\ workerPc = "exited" /\ pending # << >> =>
          /\ pushed[Len(pushed)] = None
          /\ pushed[Len(pushed) - 1] = EndFrame

C18_Witness ==
    /\ genPc = "done"
    /\ pending # << >>
    /\ \E i \in 1..Len(yielded) : \E j \in 1..Len(yielded) :
          /\ i < j
          /\ PayloadOf(yielded[i]).type = "event"
          /\ PayloadOf(yielded[j]).type = "final"
    /\ yielded[Len(yielded)] = EndFrame

\* ------------------------------------------- the same request served twice

\* The stream of the first run has ended and the same request is sent again:
\* the stage names of the first stream are kept, the session history, the
\* session's document table and the built graphs stay, everything else is as
\* when a request arrives.
SecondRun ==
    /\ run = 1
    /\ genPc = "done"
    /\ workerPc = "exited"
    /\ run' = 2
    /\ firstStages' = StageNames(yielded)
    /\ storeAtStart' = tempStore
    /\ intent' = NoIntent
    /\ classifierCalled' = FALSE
    /\ genPc' = "request"
    /\ workerPc' = "notstarted"
    /\ q' = << >>
    /\ pushed' = << >>
    /\ yielded' = << >>
    /\ rt' = [node |-> "LangGraph", phase |-> "start", out |-> EmptyDict, label |-> ""]
    /\ bag' = EmptyDict
    /\ executed' = << >>
    /\ rawEvents' = << >>
    /\ lastEvent' = NoEvent
    /\ routes' = << >>
    /\ raised' = Absent
    /\ llmFailed' = FALSE
    /\ streamed' = << >>
    /\ answer' = Absent
    /\ UNCHANGED << request, tempStore, stored, graphs,
                    graphCache, built, callers, pending, fmtIn, fmtOut >>

\* create_stream_generator's loop read after the producer thread has ended:
\* it yields every frame of the queue up to None and returns (the frames and
\* their order are those of any other reading, the queue being first in, first
\* out).
GeneratorDrain ==
    /\ workerPc = "exited"
    /\ genPc = "pulling"
    /\ \E k \in 1..Len(q) :
          /\ q[k] = None
          /\ \A i \in 1..(k - 1) : q[i] # None
          /\ yielded' = yielded \o SubSeq(q, 1, k - 1)
          /\ q' = SubSeq(q, k + 1, Len(q))
    /\ genPc' = "done"
    /\ UNCHANGED << sideVars, answer, streamed, storeAtStart, raised, llmFailed,
                    request, tempStore, stored, graphs, intent, classifierCalled,
                    workerPc, pushed, rt, bag, executed, rawEvents, lastEvent, routes >>

NextTwice ==
    \/ CreateStreamRaises
    \/ CreateStream
    \/ GeneratorStart
    \/ GeneratorDrain
    \/ Worker
    \/ SecondRun

\* A request arrives in a fresh session: no history and no document table.
InitTwice == Init /\ tempStore = FALSE

SpecTwice == InitTwice /\ [][NextTwice]_vars

\* Both streams have ended.
BothRunsDone == run = 2 /\ genPc = "done"

NoDocumentInvolved ==
    \/ intent = "general"
    \/ InvalidRequest
    \/ ~Truthy(request.document_url) /\ ~tempStore

OtherRunCreatesTable ==
    /\ workerPc = "producing"
    /\ ~tempStore
    /\ tempStore' = TRUE
    /\ UNCHANGED << sideVars, answer, streamed, storeAtStart, raised, llmFailed,
                    request, stored, graphs, intent, classifierCalled, genPc,
                    workerPc, q, pushed, yielded, rt, bag, executed, rawEvents,
                    lastEvent, routes >>

NextShared ==
    \/ CreateStreamRaises
    \/ CreateStream
    \/ GeneratorStart
    \/ GeneratorDrain
    \/ Worker
    \/ OtherRunCreatesTable

SpecShared == Init /\ [][NextShared]_vars

\* The label route_after_history returned in this run ("" before it has run),
\* and the label of route_after_policy.
FirstDecision == IF Len(routes) >= 1 THEN routes[1] ELSE ""
SecondDecision == IF Len(routes) >= 2 THEN routes[2] ELSE ""

\* C21 as stated: in a run whose first decision is no_doc, none of
\* doc_download, doc_process and doc_retriever executes.
C21_NoDocSkipsAllDocumentNodes ==
    FirstDecision = "no_doc" =>
       ~Ran("doc_download") /\ ~Ran("doc_process") /\ ~Ran("doc_retriever")

\* C21 amended: in a run whose first decision is no_doc, doc_download and
\* doc_process never execute; doc_retriever executes only when the second
\* decision is need_doc, which needs the session's table to exist by then.
C21_NoDocSkipsDownloadAndProcess ==
    FirstDecision = "no_doc" =>
       /\ ~Ran("doc_download")
       /\ ~Ran("doc_process")
       /\ Ran("doc_retriever") => (SecondDecision = "need_doc" /\ tempStore)
       /\ (SecondDecision = "no_doc_needed" /\ WorkerInFinally) => ~Ran("doc_retriever")

C21_Witness ==
    /\ FirstDecision = "no_doc"
    /\ SecondDecision = "need_doc"
    /\ ~storeAtStart
    /\ Ran("doc_retriever")
    /\ genPc = "done"

\* The step in which route_after_history returns its label.
RouteAfterHistoryStep ==
    /\ intent = "company_policy"
    /\ Running("history", "route")
    /\ routes' # routes

\* The step in which the run leaves the history node.
LeavesHistoryStep ==
    /\ intent = "company_policy"
    /\ rt.node = "history"
    /\ rt'.node # "history"

RouteAfterPolicyStep ==
    /\ intent = "company_policy"
    /\ Running("policy_retriever", "route")
    /\ routes' # routes

\* The step in which the run leaves the policy_retriever node.
LeavesPolicyRetrieverStep ==
    /\ intent = "company_policy"
    /\ rt.node = "policy_retriever"
    /\ rt'.node # "policy_retriever"

\* C23 as stated: route_after_policy sends the run to doc_retriever if and
\* only if the session's temporary store exists when it is evaluated.
C23_DocRetrieverIffStoreExists ==
    [][RouteAfterPolicyStep => (rt'.label = "need_doc" <=> tempStore)]_vars

\* C23 amended: doc_retriever executes in a policy run if and only if
\* route_after_policy returns need_doc, whatever route_after_history returned;
\* need_doc is returned only when the store exists at that moment (a failed
\* lookup counts as no store), and without a store the label is always
\* no_doc_needed and the run goes from policy_retriever to context_combine.
C23_DocRetrieverIffNeedDoc ==
    /\ [][RouteAfterPolicyStep =>
             /\ routes' = Append(routes, rt'.label)
             /\ rt'.label \in {"need_doc", "no_doc_needed"}
             /\ rt'.label = "need_doc" => tempStore
             /\ ~tempStore => rt'.label = "no_doc_needed"]_vars
    /\ [][LeavesPolicyRetrieverStep =>
             rt'.node = (IF SecondDecision = "need_doc" THEN "doc_retriever"
                                                        ELSE "context_combine")]_vars
    /\ [](Ran("doc_retriever") => SecondDecision = "need_doc")
    /\ []((Ran("context_combine") /\ SecondDecision = "need_doc") => Ran("doc_retriever"))

C23_Witness ==
    /\ FirstDecision = "has_doc"
    /\ SecondDecision = "need_doc"
    /\ Ran("doc_retriever")
    /\ Ran("context_combine")
    /\ genPc = "done"

\* ------------------------------------------------- node events of one run

PolicyHasDocPath ==
    << "input", "history", "policy_retriever", "doc_retriever", "context_combine",
       "llm", "session_update", "output" >>

\* The paths from input to output of the graph selected for the run.
GraphPaths ==
    IF intent = "general" THEN { GeneralPath }
    ELSE { PolicyNoDocPath, PolicyHasDocPath, PolicyWithDocPath, PolicyDocFailedPath }

NodeNames == { PolicyWithDocPath[i] : i \in 1..Len(PolicyWithDocPath) }

\* The start and end events of nodes, in the order of emission.
NodeEvents == SelectSeq(rawEvents, LAMBDA e : e[2] \in NodeNames)

\* The graph has emitted its own end event.
RootEnded ==
    /\ rawEvents # << >>
    /\ rawEvents[Len(rawEvents)] = << "on_chain_end", "LangGraph" >>

\* C24: within one run the node events alternate start, end, start, end, ...
\* with each end naming the node of the start before it (one node current at a
\* time, a node's end before the next node's start), no node starts twice, and
\* the nodes form a path of the selected graph from input on, which reaches
\* output when the graph ends.
C24_NodesFormOnePath ==
    LET events == NodeEvents
        started == [i \in 1..((Len(events) + 1) \div 2) |-> events[2 * i - 1][2]]
    IN  /\ \A i \in 1..Len(events) :
              /\ events[i][1] = (IF i % 2 = 1 THEN "on_chain_start" ELSE "on_chain_end")
              /\ (i % 2 = 0) => events[i][2] = events[i - 1][2]
        /\ \A i, j \in 1..Len(started) : i # j => started[i] # started[j]
        /\ \A i, j \in 1..Len(executed) : i # j => executed[i] # executed[j]
        /\ \E path \in GraphPaths : IsPrefix(started, path)
        /\ IsPrefix(executed, started)
        /\ Len(started) <= Len(executed) + 1
        /\ RootEnded => (executed = started /\ executed \in GraphPaths
                         /\ Len(events) = 2 * Len(executed))

C24_Witness ==
    /\ RootEnded
    /\ executed = PolicyHasDocPath
    /\ Len(NodeEvents) = 16
    /\ genPc = "done"

\* ------------------------------------------------------ retrieval payloads

\* The items a retrieval node retrieved in this run: the chunks of a successful
\* lookup, none after a failed one.
RetrievedBy(node) ==
    IF node = "policy_retriever"
    THEN (IF bag.policy_context.v.status = "success"
             THEN bag.policy_context.v.chunks ELSE << >>)
    ELSE bag.doc_context.v

\* The payloads put for the end event of a retrieval node.
RetrievalPayloads(node) ==
    LET frames == SelectSeq(pushed, LAMBDA l :
                     /\ l # None
                     /\ PayloadOf(l).type = "stage"
                     /\ PayloadOf(l).node = node
                     /\ Has(PayloadOf(l), "count"))
    IN  [i \in 1..Len(frames) |-> PayloadOf(frames[i])]

\* The node's end event has been emitted.
NodeEnded(node) ==
    \E i \in 1..Len(rawEvents) : rawEvents[i] = << "on_chain_end", node >>

\* C25: once policy_retriever or doc_retriever has ended, the one payload put
\* for its end event has count equal to the number of items the node retrieved
\* and sample equal to the first retrieved item truncated to 160 characters,
\* the empty text when nothing was retrieved.
C25_RetrievalCountAndSample ==
    \A node \in {"policy_retriever", "doc_retriever"} :
       NodeEnded(node) =>
          LET payloads == RetrievalPayloads(node)
              items == RetrievedBy(node)
          IN  /\ Len(payloads) = 1
              /\ payloads[1].count = Len(items)
              /\ Has(payloads[1], "sample")
              /\ payloads[1].sample =
                    _truncate(IF items = << >> THEN << >> ELSE StrOfChunk(items[1]), 160)

\* ------------------------------------------------------------- _truncate

\* The texts given to _truncate: every text of up to MaxTextLen characters over
\* two letters and the blank.
TruncateChars == {"a", "b", " "}
TruncateTexts ==
    UNION { [1..n -> TruncateChars] : n \in 0..MaxTextLen }

InitTruncate ==
    /\ request \in [session_id : {SessionDash}, user_id : {UserOne},
                    message : {MsgHello}, document_url : {None}]
    /\ tempStore = FALSE
    /\ storeAtStart = FALSE
    /\ RunIdle
    /\ run = 1
    /\ firstStages = << >>
    /\ graphCache = [i \in GraphIntents |-> 0]
    /\ built = [i \in GraphIntents |-> 0]
    /\ callers = << >>
    /\ pending = << >>
    /\ fmtIn \in { << [text |-> t, limit |-> n] >> :
                      t \in TruncateTexts \cup {None}, n \in 1..MaxLimit }
    /\ fmtOut = << >>

\* One call _truncate(text, limit).
Truncate ==
    /\ fmtOut = << >>
    /\ fmtOut' = << _truncate(fmtIn[1].text, fmtIn[1].limit) >>
    /\ UNCHANGED << runVars, run, firstStages, graphCache, built, callers, pending, fmtIn >>

SpecTruncate == InitTruncate /\ [][Truncate]_vars

\* The call was made on a text (not None).
TruncatedText == fmtOut # << >> /\ fmtIn[1].text # None

\* C26 as stated: a text of at most N characters is returned unchanged, a
\* longer one as its first N characters followed by one ellipsis.
C26_FirstNCharactersThenEllipsis ==
    TruncatedText =>
       LET text == fmtIn[1].text
           N == fmtIn[1].limit
       IN  fmtOut[1] = (IF Len(text) <= N THEN text
                        ELSE SubSeq(text, 1, N) \o << Ellipsis >>)

\* C26 amended: a text of at most N characters is returned unchanged; a longer
\* one is returned as its first N-1 characters with trailing whitespace
\* removed, followed by one ellipsis, so the result has at most N characters.
C26_AtMostNCharactersWithEllipsis ==
    TruncatedText =>
       LET text == fmtIn[1].text
           N == fmtIn[1].limit
           out == fmtOut[1]
           kept == SubSeq(out, 1, Len(out) - 1)
       IN  /\ Len(text) <= N => out = text
           /\ Len(text) > N =>
                 /\ out # << >>
                 /\ Len(out) <= N
                 /\ out[Len(out)] = Ellipsis
                 /\ \A i \in 1..Len(kept) : kept[i] # Ellipsis
                 /\ IsPrefix(kept, text)
                 /\ kept = << >> \/ ~IsSpace(kept[Len(kept)])
                 /\ \A i \in (Len(kept) + 1)..(N - 1) : IsSpace(text[i])

C26_Witness ==
    /\ fmtOut # << >>
    /\ fmtIn[1].text = << "a", " ", "b", "a" >>
    /\ fmtIn[1].limit = 3
    /\ fmtOut[1] = << "a", Ellipsis >>

\* ------------------------------------- concurrent update_session_history

\* Two runs of the same session whose session_update nodes are under way at
\* the same time, each in its own request thread.
SaverIds == {"r1", "r2"}
AnswerOf(t) == << "a", t >>

InitHistory ==
    /\ request \in [session_id : {SessionDash}, user_id : {UserOne},
                    message : {MsgHello}, document_url : {None}]
    /\ tempStore = FALSE
    /\ storeAtStart = FALSE
    /\ RunIdle
    /\ run = 1
    /\ firstStages = << >>
    /\ graphCache = [i \in GraphIntents |-> 0]
    /\ built = [i \in GraphIntents |-> 0]
    /\ callers \in { [t \in SaverIds |->
                        [pc |-> "session", human_message |-> m[t],
                         ai_response |-> AnswerOf(t), failed |-> FALSE]] :
                     m \in [SaverIds -> {MsgVacation, MsgHello}] }
    /\ pending = << >>
    /\ fmtIn = << >>
    /\ fmtOut = << >>

\* What a step of update_session_history leaves unchanged.
HistoryUnchanged ==
    UNCHANGED << request, tempStore, graphs, intent, classifierCalled, genPc, workerPc,
                 q, pushed, yielded, rt, bag, executed, rawEvents, lastEvent, routes,
                 storeAtStart, raised, llmFailed, streamed, answer, run, firstStages,
                 graphCache, built, pending, fmtIn, fmtOut >>

\* chat_repo.get_or_create_session returns, or raises into the except clause.
EnsureSession(t) ==
    /\ callers[t].pc = "session"
    /\ \E ok \in BOOLEAN :
          callers' = [callers EXCEPT ![t].pc = IF ok THEN "user" ELSE "returned",
                                     ![t].failed = ~ok]
    /\ UNCHANGED stored
    /\ HistoryUnchanged

\* chat_repo.save_message(role='user'): INSERT and commit, or rollback and raise.
SaveUserMessage(t) ==
    /\ callers[t].pc = "user"
    /\ \E ok \in BOOLEAN :
          /\ stored' = IF ok THEN Append(stored, [role |-> "user",
                                                  content |-> callers[t].human_message])
                             ELSE stored
          /\ callers' = [callers EXCEPT ![t].pc = IF ok THEN "assistant" ELSE "returned",
                                        ![t].failed = ~ok]
    /\ HistoryUnchanged

\* chat_repo.save_message(role='assistant'): INSERT and commit, or rollback and raise.
SaveAssistantMessage(t) ==
    /\ callers[t].pc = "assistant"
    /\ \E ok \in BOOLEAN :
          /\ stored' = IF ok THEN Append(stored, [role |-> "assistant",
                                                  content |-> callers[t].ai_response])
                             ELSE stored
          /\ callers' = [callers EXCEPT ![t].pc = "returned", ![t].failed = ~ok]
    /\ HistoryUnchanged

NextHistory ==
    \E t \in SaverIds :
       \/ EnsureSession(t)
       \/ SaveUserMessage(t)
       \/ SaveAssistantMessage(t)

SpecHistory == InitHistory /\ [][NextHistory]_vars

\* Every update_session_history call has returned.
AllSavesReturned == \A t \in SaverIds : callers[t].pc = "returned"

\* C27: once the calls have returned, the stored messages are a sequence of
\* pairs, each the user message of one call followed directly by the assistant
\* response of the same call, also when the calls interleave and when a save
\* fails.
C27_StoredHistoryIsPairs ==
    AllSavesReturned =>
       /\ Len(stored) % 2 = 0
       /\ \A k \in 1..(Len(stored) \div 2) :
             /\ stored[2 * k - 1].role = "user"
             /\ stored[2 * k].role = "assistant"
             /\ \E t \in SaverIds :
                   /\ stored[2 * k - 1].content = callers[t].human_message
                   /\ stored[2 * k].content = callers[t].ai_response

\* ------------------------------------------- a later run with the store

\* A policy run that began when the session's temporary store existed.
LaterPolicyRun == storeAtStart /\ intent = "company_policy"

SaveFailed == Ran("session_update") /\ Len(stored) < 2

\* C29: after a failed write in session_update no exception has left the
\* graph, the run goes on to output, no error frame is put, and when the
\* producer is through output has executed and the one final frame carries the
\* generated response; the stream ends with the end frame.
C29_FailedSaveIsSwallowed ==
    SaveFailed =>
       /\ raised = Absent
       /\ \A i \in 1..Len(pushed) :
             pushed[i] # None => PayloadOf(pushed[i]).type # "error"
       /\ IsPrefix(<< "session_update" >>,
                   SubSeq(executed, Len(executed) - (IF Ran("output") THEN 1 ELSE 0),
                          Len(executed)))
       /\ WorkerInFinally =>
             /\ Ran("output")
             /\ Has(bag, "response")
             /\ ContentsOf("final") = << bag.response >>
       /\ genPc = "done" =>
             /\ yielded[Len(yielded)] = EndFrame
             /\ \E i \in 1..Len(yielded) :
                   /\ PayloadOf(yielded[i]).type = "final"
                   /\ PayloadOf(yielded[i]).content = bag.response

C29_Witness ==
    /\ SaveFailed
    /\ stored = << [role |-> "user", content |-> request.message] >>
    /\ Ran("output")
    /\ genPc = "done"
    /\ ContentsOf("final") = << bag.response >>

\* ------------------------------------------------------ the history read

\* Rows chat_repo.get_messages may return for a session besides those the
\* pipeline stored: none, a row of another role, and user and assistant rows.
HistoryRowSets ==
    LET user == [role |-> "user", content |-> MsgHello]
        assistant == [role |-> "assistant", content |-> << "a" >>]
        other == [role |-> "system", content |-> << "s" >>]
    IN  { << >>, << other >>, << other, user >>, << user, assistant, user >> }

\* The rows of role user or assistant.
ChatRows(db_messages) ==
    SelectSeq(db_messages, LAMBDA m : m.role \in {"user", "assistant"})

\* The payloads put for the end event of the history node.
HistoryPayloads ==
    LET frames == SelectSeq(pushed, LAMBDA l :
                     /\ l # None
                     /\ PayloadOf(l).type = "stage"
                     /\ PayloadOf(l).node = "history"
                     /\ Has(PayloadOf(l), "count"))
    IN  [i \in 1..Len(frames) |-> PayloadOf(frames[i])]

\* C30: get_session_history returns a non-empty list for every stored content
\* and also when the read fails: the one placeholder system message when there
\* is no user or assistant row or the read failed, one message per such row
\* otherwise; the history node raises nothing and, in the first run of a fresh
\* session as in a later run, the one stage frame of its end event has a count
\* of at least 1, which is the number of messages it fetched.
C30_HistoryIsNeverEmpty ==
    /\ \A db_messages \in HistoryRowSets \cup {stored} : \A readOk \in BOOLEAN :
          LET history == get_session_history(db_messages, readOk)
              rows == ChatRows(db_messages)
          IN  /\ history # << >>
              /\ (~readOk \/ rows = << >>) => history = << Placeholder >>
              /\ (readOk /\ rows # << >>) =>
                    /\ Len(history) = Len(rows)
                    /\ \A i \in 1..Len(history) : history[i].content = rows[i].content
    /\ Has(bag, "history") => bag.history.v # << >>
    /\ (executed # << >> /\ executed[Len(executed)] = "history") => raised = Absent
    /\ NodeEnded("history") =>
          LET payloads == HistoryPayloads IN
          /\ Len(payloads) = 1
          /\ payloads[1].count >= 1
          /\ ~Ran("output") => payloads[1].count = Len(bag.history.v)
          /\ stored = << >> => payloads[1].count = 1

C30_Witness ==
    /\ run = 2
    /\ NodeEnded("history")
    /\ ~Ran("output")
    /\ Len(stored) = 2
    /\ HistoryPayloads[1].count \in {1, 2}
    /\ Len(bag.history.v) = HistoryPayloads[1].count

====
